---------------------------- MODULE Spec2Model ----------------------------
(***************************************************************************)
(* A model of the pop-os tiler core (src/src/tiler.rs, fork.rs, stack.rs,  *)
(* window.rs, display.rs, workspace.rs, geom.rs) driven through the        *)
(* request surface of service/src/lib.rs plus Tiler::window.               *)
(*                                                                         *)
(* Reference-counted nodes are heap cells: a window, fork, stack or        *)
(* display pointer is an index into the corresponding heap, Nil is None.   *)
(* Cells that the tiler can no longer reach are reclaimed at the end of a  *)
(* request and the lowest free index is used by the next allocation.       *)
(***************************************************************************)
EXTENDS Integers, Sequences, FiniteSets, TLC

\* ------------------------------------------------------------------ bounds
NumWindows == 4
MaxObjs == 4
MaxForks == 4
MaxStacks == 2
MaxDisplayObjs == 3
MaxDepth == 6
StepsDefault == 4
StepsTiled == 4
TiledWindows == 3
StepsTree == 6
StepsSwitch == 4
StepsQueue == 6
NumCallers == 2
StepsThread == 3
StepsStack == 3
StackWindows == 4
SwitchWindows == 3
TreeWindows == 4

WinIds == 0 .. (NumWindows - 1)
Objs == 1 .. MaxObjs
ForkIds == 1 .. MaxForks
StackIds == 1 .. MaxStacks
DispObjs == 1 .. MaxDisplayObjs
DisplayIds == {0, 1}
WorkspaceIds == {0, 1}

Nil == 0
NoId == -1

\* ---------------------------------------------------------------- geometry
Rect(x, y, w, h) == [x |-> x, y |-> y, width |-> w, height |-> h]

DisplayRects == { Rect(1, 1, 2560, 1440), Rect(2561, 1, 1920, 1080), Rect(1, 1, 6, 9) }
ResizeSplits == { 0, 3, 4000 }

area(r) == r.width * r.height
x_center(r) == r.x + (r.width \div 2)
y_center(r) == r.y + (r.height \div 2)
x_end(r) == r.x + r.width
y_end(r) == r.y + r.height

preferred_orientation(r) == IF r.height > r.width THEN "Vertical" ELSE "Horizontal"

\* ------------------------------------------------------------------- cells
NoBranch == [kind |-> "None", ptr |-> Nil]
BranchWindow(w) == [kind |-> "Window", ptr |-> w]
BranchFork(f) == [kind |-> "Fork", ptr |-> f]
BranchStack(k) == [kind |-> "Stack", ptr |-> k]

NoWindow == [id |-> NoId, fork |-> Nil, stack |-> Nil, rect |-> Rect(0, 0, 0, 0),
             workspace |-> 0, visible |-> FALSE]
NoFork == [live |-> FALSE, area |-> Rect(0, 0, 0, 0), parent |-> Nil, left |-> NoBranch,
           right |-> NoBranch, workspace |-> 0, orientation |-> "Horizontal",
           split_handle |-> 0, orientation_toggled |-> FALSE]
NoStack == [live |-> FALSE, area |-> Rect(0, 0, 0, 0), active |-> Nil, parent |-> Nil,
            windows |-> << >>, workspace |-> 0]
NoDisplay == [live |-> FALSE, area |-> Rect(0, 0, 0, 0), active |-> NoId, workspaces |-> {}]
NoWorkspace == [exists |-> FALSE, focus |-> Nil, fork |-> Nil, parent |-> Nil]

\* ------------------------------------------------------------- event queue
\* Option<T>: None is the empty sequence, Some(v) the sequence of v alone, which
\* is also what Option::into_iter yields.
None == << >>
Some(v) == << v >>

\* Placement and ForkUpdate
Placement(r, workspace) == [area |-> r, workspace |-> workspace]
ForkUpdate(workspace, orientation, r, handle) ==
    [workspace |-> workspace, orientation |-> orientation, rect |-> r, handle |-> handle]

\* ForkEvents, WindowEvents and StackEvents as #[derive(Default)] builds them.
\* A map of the queue holds the default value at every key without an entry:
\* consume_events yields nothing for a default entry.
ForkEvents_default == [destroy |-> FALSE, update |-> None]
WindowEvents_default == [place |-> None, visibility |-> None]
StackEvents_default ==
    [destroy |-> FALSE, assignments |-> [i \in WinIds |-> None], place |-> None,
     visibility |-> None, raise |-> None]

\* EventQueue::default
EventQueue_default ==
    [forks |-> [f \in ForkIds |-> ForkEvents_default],
     windows |-> [i \in WinIds |-> WindowEvents_default],
     stacks |-> [k \in StackIds |-> StackEvents_default],
     events |-> << >>]

\* What Tiler::events hands to the caller before the iterator is walked: the
\* buckets taken out of the queue and the two trailing options.
Drained(queue, workspace_switch, focus) ==
    [queue |-> queue, workspace_switch |-> workspace_switch, focus |-> focus]
NoEvents == Drained(EventQueue_default, None, None)

\* TilerThread::default: both channels are empty and no caller has sent anything
Callers == 1 .. NumCallers
TilerThread_default ==
    [ requests |-> << >>, responses |-> << >>,
      caller |-> [c \in Callers |-> [pc |-> "idle", got |-> << >>]] ]

VARIABLES
    win,                      \* heap of Window cells
    fork,                     \* heap of Fork cells
    stack,                    \* heap of Stack cells
    display,                  \* heap of Display cells
    windows,                  \* Tiler.windows: WindowID -> WindowPtr
    forks,                    \* Tiler.forks: the registered fork handles
    displays,                 \* Tiler.displays: display id -> DisplayPtr
    workspaces,               \* Tiler.workspaces: workspace id -> Workspace
    active,                   \* Tiler.active
    active_changed,           \* Tiler.active_changed
    active_workspace,         \* Tiler.active_workspace
    active_workspace_changed, \* Tiler.active_workspace_changed
    event_queue,              \* Tiler.event_queue
    drained,                  \* what Tiler::events returned for the last request
    thread,                   \* TilerThread: the two channels and the callers of handle
    abort,                    \* "none", or how the last request ended the process
    last,                     \* the request handled last
    steps                     \* number of requests still to be explored

vars == << win, fork, stack, display, windows, forks, displays, workspaces, active,
           active_changed, active_workspace, active_workspace_changed, event_queue,
           drained, thread, abort, last, steps >>

\* The tiler as one record, threaded through the operations of a request.
\* abort tells how the request panicked, uf whether an unsigned subtraction
\* went below zero on the way (a panic in a build with overflow checks).
\* Every request ends with Tiler::events, which empties the queue and fills
\* drained.
State ==
    [ win |-> win, fork |-> fork, stack |-> stack, display |-> display,
      windows |-> windows, forks |-> forks, displays |-> displays,
      workspaces |-> workspaces, active |-> active, active_changed |-> active_changed,
      active_workspace |-> active_workspace,
      active_workspace_changed |-> active_workspace_changed,
      event_queue |-> event_queue, drained |-> NoEvents,
      abort |-> "none", uf |-> FALSE ]

Abort(s, why) == [s EXCEPT !.abort = why]

\* u32 subtraction a - b with a < b whose result is used as a length: a panic
\* with overflow checks, without them a wrapped value near 2^32 that no
\* modelled rectangle can hold, so the run is not followed further.
Underflow(s) == [s EXCEPT !.abort = "wrapped", !.uf = TRUE]

\* u32 subtraction a - b with a < b whose wrapped result is harmless: a panic
\* with overflow checks, without them the request goes on.
Wrapped(s) == [s EXCEPT !.uf = TRUE]

\* Lowest free cell of each heap.
FreeObjs(s) == { o \in Objs : s.win[o].id = NoId }
FreeForks(s) == { f \in ForkIds : ~ s.fork[f].live }
FreeStacks(s) == { k \in StackIds : ~ s.stack[k].live }
FreeDisplays(s) == { d \in DispObjs : ~ s.display[d].live }
Lowest(S) == CHOOSE x \in S : \A y \in S : x <= y


\* ------------------------------------------------- event queue operations
\* EventQueue::fork_destroy
queue_fork_destroy(s, f) == [s EXCEPT !.event_queue.forks[f].destroy = TRUE]

\* EventQueue::fork_update
queue_fork_update(s, f) ==
    [s EXCEPT !.event_queue.forks[f].update =
        Some(ForkUpdate(s.fork[f].workspace, s.fork[f].orientation, s.fork[f].area,
                        s.fork[f].split_handle))]

\* EventQueue::stack_assign and EventQueue::stack_detach
queue_stack_assign(s, k, w) ==
    [s EXCEPT !.event_queue.stacks[k].assignments[s.win[w].id] = Some(TRUE)]

queue_stack_detach(s, k, w) ==
    [s EXCEPT !.event_queue.stacks[k].assignments[s.win[w].id] = Some(FALSE)]

\* EventQueue::stack_destroy
queue_stack_destroy(s, k) == [s EXCEPT !.event_queue.stacks[k].destroy = TRUE]

\* EventQueue::stack_raise_window
queue_stack_raise_window(s, k, w) ==
    [s EXCEPT !.event_queue.stacks[k].raise = Some(s.win[w].id)]

\* EventQueue::stack_movement
queue_stack_movement(s, k, movement) ==
    [s EXCEPT !.event_queue.events =
        Append(@, [type |-> "StackMovement", id |-> k, movement |-> movement])]

\* EventQueue::stack_update
queue_stack_update(s, k) ==
    [s EXCEPT !.event_queue.stacks[k].place =
        Some(Placement(s.stack[k].area, s.stack[k].workspace))]

\* event_queue.windows.entry(id).or_default().place = Some(..) and
\* event_queue.windows.entry(id).or_default().visibility = Some(..)
queue_window_place(s, id, r, workspace) ==
    [s EXCEPT !.event_queue.windows[id].place = Some(Placement(r, workspace))]

queue_window_visibility(s, id, show) ==
    [s EXCEPT !.event_queue.windows[id].visibility = Some(show)]

\* ------------------------------------------------------------ window cells
\* Window::new
Window_new(id) ==
    [id |-> id, fork |-> Nil, stack |-> Nil, rect |-> Rect(1, 1, 1, 1),
     workspace |-> 0, visible |-> TRUE]

\* WindowPtr::fork_set
fork_set(s, w, f) ==
    [s EXCEPT !.win[w].workspace = s.fork[f].workspace, !.win[w].fork = f]

\* WindowPtr::fork_take (the state after the take; the taken value is read before)
fork_take(s, w) == [s EXCEPT !.win[w].fork = Nil]

\* WindowPtr::work_area_update
window_work_area_update(s, w, r) ==
    queue_window_place([s EXCEPT !.win[w].rect = r], s.win[w].id, r, s.win[w].workspace)

\* ------------------------------------------------------------- stack cells
\* StackPtr::work_area_update
RECURSIVE stack_place_windows(_, _, _)
stack_place_windows(s, ws, r) ==
    IF ws = << >> THEN s
    ELSE stack_place_windows(window_work_area_update(s, Head(ws), r), Tail(ws), r)

stack_work_area_update(s, k, r) ==
    queue_stack_update(
        stack_place_windows([s EXCEPT !.stack[k].area = r], s.stack[k].windows, r), k)

\* StackPtr::work_area_refresh
stack_work_area_refresh(s, k) == stack_work_area_update(s, k, s.stack[k].area)

\* Position of the first cell of a sequence equal to w, 0 when absent
\* (Iterator::position, one-based here).
Position(ws, w) ==
    IF \E i \in 1 .. Len(ws) : ws[i] = w
    THEN CHOOSE i \in 1 .. Len(ws) : ws[i] = w /\ \A j \in 1 .. (i - 1) : ws[j] # w
    ELSE 0

RemoveAt(ws, i) == SubSeq(ws, 1, i - 1) \o SubSeq(ws, i + 1, Len(ws))

\* Stack::active_window_position
active_window_position(s, k) == Position(s.stack[k].windows, s.stack[k].active)

\* StackPtr::attach
stack_attach(s, k, w) ==
    [s EXCEPT !.win[w].stack = k, !.stack[k].windows = Append(@, w)]

\* StackPtr::select_left / select_right: the neighbour of the active member, or Nil
select_left(s, k) ==
    LET pos == active_window_position(s, k)
    IN IF pos > 1 THEN s.stack[k].windows[pos - 1] ELSE Nil

select_right(s, k) ==
    LET pos == active_window_position(s, k)
    IN IF pos > 0 /\ pos < Len(s.stack[k].windows) THEN s.stack[k].windows[pos + 1] ELSE Nil

SwapAt(ws, i, j) == [n \in 1 .. Len(ws) |-> IF n = i THEN ws[j] ELSE IF n = j THEN ws[i] ELSE ws[n]]

\* StackMovement::Left(id) and StackMovement::Right(id)
StackMovement(dir, id) == [dir |-> dir, window |-> id]

\* StackPtr::move_left / move_right: moved is whether a StackMovement is returned
stack_move_left(s, k) ==
    LET pos == active_window_position(s, k)
    IN IF pos > 1
       THEN [moved |-> TRUE, st |-> [s EXCEPT !.stack[k].windows = SwapAt(@, pos, pos - 1)]]
       ELSE [moved |-> FALSE, st |-> s]

stack_move_right(s, k) ==
    LET pos == active_window_position(s, k)
    IN IF pos > 0 /\ pos # Len(s.stack[k].windows)
       THEN [moved |-> TRUE, st |-> [s EXCEPT !.stack[k].windows = SwapAt(@, pos, pos + 1)]]
       ELSE [moved |-> FALSE, st |-> s]

\* StackPtr::swap: every cell of the member list that is `our` becomes `their`
stack_swap(s, k, our, their) ==
    [s EXCEPT !.stack[k].windows =
        [n \in 1 .. Len(@) |-> IF @[n] = our THEN their ELSE @[n]]]

\* -------------------------------------------------------------- fork cells
\* Branch::ref_eq
ref_eq(b, kind, ptr) == b.kind = kind /\ b.ptr = ptr

\* Fork::left_is / Fork::right_is
left_is(s, f, kind, ptr) == ref_eq(s.fork[f].left, kind, ptr)
right_is(s, f, kind, ptr) == ref_eq(s.fork[f].right, kind, ptr)

\* Fork::branch: which slot of f holds the reference
branch(s, f, kind, ptr) ==
    IF left_is(s, f, kind, ptr) THEN "Left"
    ELSE IF right_is(s, f, kind, ptr) THEN "Right"
    ELSE "None"

\* *branch = b, for the slot found by Fork::branch
branch_assign(s, f, slot, b) ==
    IF slot = "Left" THEN [s EXCEPT !.fork[f].left = b]
    ELSE IF slot = "Right" THEN [s EXCEPT !.fork[f].right = b]
    ELSE s

\* Fork::new; the split of the new fork is x_center - 1 or y_center - 1
Fork_new_split(r) ==
    IF preferred_orientation(r) = "Horizontal" THEN x_center(r) - 1 ELSE y_center(r) - 1

Fork_new(r, left, workspace) ==
    [live |-> TRUE, area |-> r, parent |-> Nil, left |-> left, right |-> NoBranch,
     workspace |-> workspace, orientation |-> preferred_orientation(r),
     split_handle |-> Fork_new_split(r), orientation_toggled |-> FALSE]

\* The length of a rect along an orientation's axis
axis(r, orientation) == IF orientation = "Horizontal" THEN r.width ELSE r.height

\* new_split = area.axis * (old_split * 100 / old_area.axis) / 100
rescale(split, old_len, new_len) == (new_len * ((split * 100) \div old_len)) \div 100

\* ForkPtr::work_area_update, its last statement
fork_updated(s, f) == IF s.abort # "none" THEN s ELSE queue_fork_update(s, f)

\* ForkPtr::work_area_update and Branch::work_area_update
RECURSIVE fork_work_area_update(_, _, _, _)
RECURSIVE branch_work_area_update(_, _, _, _)
fork_work_area_update(s, f, r, fuel) ==
    IF s.abort # "none" THEN s
    ELSE IF fuel = 0 THEN Abort(s, "recursion")
    ELSE
    LET this == s.fork[f]
        old_len == axis(this.area, this.orientation)
        new_len == axis(r, this.orientation)
    IN  IF old_len = 0 THEN Abort(s, "divzero")
        ELSE
        LET split == rescale(this.split_handle, old_len, new_len)
            has_right == this.right.kind # "None"
            left_rect ==
                IF ~ has_right THEN r
                ELSE IF this.orientation = "Vertical"
                THEN Rect(r.x, r.y, r.width, split)
                ELSE Rect(r.x, r.y, split, r.height)
            right_rect ==
                IF this.orientation = "Vertical"
                THEN Rect(r.x, r.y + split, r.width, r.height - split)
                ELSE Rect(r.x + split, r.y, r.width - split, r.height)
            s1 == [s EXCEPT !.fork[f].split_handle = split, !.fork[f].area = r]
            s2 == branch_work_area_update(s1, this.left, left_rect, fuel - 1)
        IN  IF has_right /\ split > new_len THEN Underflow(s1)
            ELSE IF has_right
            THEN fork_updated(branch_work_area_update(s2, this.right, right_rect, fuel - 1), f)
            ELSE fork_updated(s2, f)

branch_work_area_update(s, b, r, fuel) ==
    IF s.abort # "none" THEN s
    ELSE IF b.kind = "Fork" THEN fork_work_area_update(s, b.ptr, r, fuel)
    ELSE IF b.kind = "Stack" THEN stack_work_area_update(s, b.ptr, r)
    ELSE IF b.kind = "Window" THEN window_work_area_update(s, b.ptr, r)
    ELSE s

\* ForkPtr::work_area_refresh
fork_work_area_refresh(s, f) ==
    IF s.abort # "none" THEN s ELSE fork_work_area_update(s, f, s.fork[f].area, MaxDepth)

\* ForkPtr::toggle_orientation with the branches left in place
toggle_orientation_in_place(s, f) ==
    IF s.abort # "none" THEN s
    ELSE
    LET this == s.fork[f]
        old_len == axis(this.area, this.orientation)
        flipped == IF this.orientation = "Horizontal" THEN "Vertical" ELSE "Horizontal"
    IN  IF old_len = 0 THEN Abort(s, "divzero")
        ELSE fork_work_area_update(
                [s EXCEPT !.fork[f].orientation = flipped,
                          !.fork[f].split_handle =
                              rescale(this.split_handle, old_len, axis(this.area, flipped)),
                          !.fork[f].orientation_toggled = ~ this.orientation_toggled],
                f, this.area, MaxDepth)

\* ForkPtr::toggle_orientation
fork_toggle_orientation(s, f) ==
    IF s.abort # "none" THEN s
    ELSE
    LET this == s.fork[f]
        old_len == axis(this.area, this.orientation)
        flipped == IF this.orientation = "Horizontal" THEN "Vertical" ELSE "Horizontal"
        swap == this.orientation_toggled /\ this.right.kind # "None"
    IN  IF old_len = 0 THEN Abort(s, "divzero")
        ELSE fork_work_area_refresh(
                [s EXCEPT !.fork[f].orientation = flipped,
                          !.fork[f].split_handle =
                              rescale(this.split_handle, old_len, axis(this.area, flipped)),
                          !.fork[f].left = IF swap THEN this.right ELSE this.left,
                          !.fork[f].right = IF swap THEN this.left ELSE this.right,
                          !.fork[f].orientation_toggled = ~ this.orientation_toggled],
                f)

\* ForkPtr::orientation_set
orientation_set(s, f, orientation) ==
    IF s.abort # "none" THEN s
    ELSE IF s.fork[f].orientation = orientation THEN s
    ELSE fork_toggle_orientation(s, f)

\* ForkPtr::reset_orientation
reset_orientation(s, f) ==
    IF s.abort # "none" THEN s
    ELSE
    LET this == s.fork[f]
        s1 == [s EXCEPT !.fork[f].split_handle = axis(this.area, this.orientation) \div 2]
    IN  IF this.orientation # preferred_orientation(this.area)
        THEN fork_toggle_orientation(s1, f)
        ELSE s1

Min(a, b) == IF a < b THEN a ELSE b

\* ForkPtr::resize
fork_resize_to(s, f, split) ==
    fork_work_area_refresh(
        [s EXCEPT !.fork[f].split_handle = Min(split, axis(s.fork[f].area, s.fork[f].orientation))],
        f)

\* ForkPtr::swap
fork_swap(s, f, our, their) ==
    IF ref_eq(s.fork[f].left, "Window", our)
    THEN [s EXCEPT !.fork[f].left = BranchWindow(their)]
    ELSE IF ref_eq(s.fork[f].right, "Window", our)
    THEN [s EXCEPT !.fork[f].right = BranchWindow(their)]
    ELSE s

Reverse(q) == [n \in 1 .. Len(q) |-> q[Len(q) + 1 - n]]

\* ForkPtr::windows: the order in which the generator yields the windows under f.
\* Branches are popped right before left; a stack yields its members last to
\* first; an empty stack makes the generator return None, which ends the walk.
RECURSIVE fork_windows(_, _, _)
RECURSIVE branch_windows(_, _, _)
fork_windows(s, f, fuel) ==
    IF fuel = 0 THEN [ws |-> << >>, stop |-> TRUE]
    ELSE
    LET r == IF s.fork[f].right.kind = "None" THEN [ws |-> << >>, stop |-> FALSE]
             ELSE branch_windows(s, s.fork[f].right, fuel - 1)
        l == branch_windows(s, s.fork[f].left, fuel - 1)
    IN  IF r.stop THEN r ELSE [ws |-> r.ws \o l.ws, stop |-> l.stop]

branch_windows(s, b, fuel) ==
    IF b.kind = "Window" THEN [ws |-> << b.ptr >>, stop |-> FALSE]
    ELSE IF b.kind = "Stack"
    THEN [ws |-> Reverse(s.stack[b.ptr].windows), stop |-> s.stack[b.ptr].windows = << >>]
    ELSE fork_windows(s, b.ptr, fuel)

\* ForkPtr::largest_window: the first window of the walk with the greatest
\* non-zero area, Nil when there is none
RECURSIVE largest_of(_, _, _, _)
largest_of(s, ws, largest_area, largest_window) ==
    IF ws = << >> THEN largest_window
    ELSE IF area(s.win[Head(ws)].rect) > largest_area
    THEN largest_of(s, Tail(ws), area(s.win[Head(ws)].rect), Head(ws))
    ELSE largest_of(s, Tail(ws), largest_area, largest_window)

largest_window(s, f) == largest_of(s, fork_windows(s, f, MaxDepth).ws, 0, Nil)


\* ------------------------------------------------------------------- tiler
\* Tiler::fork_register, with ForkPtr::new placing the cell at the lowest free index
fork_register(s, f) == [queue_fork_update(s, f) EXCEPT !.forks = @ \cup {f}]

\* Tiler::detach_fork. The loop body runs once: `detaching` is never refilled.
detach_fork(s, f) ==
    IF s.abort # "none" THEN s
    ELSE
    LET parent == s.fork[f].parent
        s1 == [queue_fork_destroy(s, f) EXCEPT !.forks = @ \ {f}, !.fork[f].parent = Nil]
        roots == { k \in WorkspaceIds : s1.workspaces[k].exists /\ s1.workspaces[k].fork = f }
    IN  IF parent # Nil
        THEN IF left_is(s1, parent, "Fork", f)
             THEN IF s1.fork[parent].right.kind # "None"
                  THEN [s1 EXCEPT !.fork[parent].left = s1.fork[parent].right,
                                  !.fork[parent].right = NoBranch]
                  ELSE s1
             ELSE IF right_is(s1, parent, "Fork", f)
             THEN [s1 EXCEPT !.fork[parent].right = NoBranch]
             ELSE s1
        ELSE IF roots # {}
        THEN [s1 EXCEPT !.workspaces[Lowest(roots)].fork = Nil]
        ELSE s1

\* fork.parent = parent (None when parent is Nil)
parent_set(s, f, parent) ==
    IF s.abort # "none" THEN s ELSE [s EXCEPT !.fork[f].parent = parent]

\* reparent, the helper of Tiler::detach_branch
reparent(s, grandparent, parent, grandchild) ==
    LET roots == { k \in WorkspaceIds : s.workspaces[k].exists /\ s.workspaces[k].fork = parent }
        k == Lowest(roots)
        area_of_display == s.display[s.workspaces[k].parent].area
    IN  detach_fork(
            parent_set(
                IF grandparent # Nil
                THEN parent_set(
                         fork_work_area_refresh(
                             branch_assign(s, grandparent,
                                           branch(s, grandparent, "Fork", parent),
                                           BranchFork(grandchild)),
                             grandparent),
                         grandchild, grandparent)
                ELSE IF roots # {}
                THEN fork_work_area_update(
                         [s EXCEPT !.fork[grandchild].parent = Nil,
                                   !.workspaces[k].fork = grandchild],
                         grandchild, area_of_display, MaxDepth)
                ELSE s,
                parent, Nil),
            parent)

\* Tiler::detach_branch
detach_branch(s, f, kind, ptr) ==
    IF s.abort # "none" THEN s
    ELSE IF left_is(s, f, kind, ptr)
    THEN IF s.fork[f].right.kind # "None"
         THEN LET s1 == [s EXCEPT !.fork[f].left = s.fork[f].right, !.fork[f].right = NoBranch]
              IN  IF s1.fork[f].left.kind = "Fork"
                  THEN reparent(s1, s1.fork[f].parent, f, s1.fork[f].left.ptr)
                  ELSE s1
         ELSE detach_fork(s, f)
    ELSE IF right_is(s, f, kind, ptr)
    THEN LET s1 == [s EXCEPT !.fork[f].right = NoBranch]
         IN  IF s1.fork[f].left.kind = "Fork"
             THEN reparent(s1, s1.fork[f].parent, f, s1.fork[f].left.ptr)
             ELSE s1
    ELSE s

\* event_queue.stack_destroy(stack) once the calls before it have returned
stack_destroyed(s, k) == IF s.abort # "none" THEN s ELSE queue_stack_destroy(s, k)

\* StackPtr::detach when the first member left is raised instead of the
\* neighbour of the detached one
stack_detach_first(s, k, w) ==
    IF s.abort # "none" THEN s
    ELSE
    LET s1 == queue_stack_detach([s EXCEPT !.win[w].stack = Nil], k, w)
        pos == Position(s.stack[k].windows, w)
        rest == RemoveAt(s.stack[k].windows, pos)
        s2 == IF s.stack[k].active = w /\ rest # << >>
              THEN queue_stack_raise_window(
                       [s1 EXCEPT !.stack[k].windows = rest, !.stack[k].active = rest[1]],
                       k, rest[1])
              ELSE [s1 EXCEPT !.stack[k].windows = rest]
    IN  IF pos = 0 THEN s1
        ELSE IF rest = << >>
        THEN stack_destroyed(detach_branch(s2, s2.stack[k].parent, "Stack", k), k)
        ELSE s2

\* StackPtr::detach
stack_detach(s, k, w) ==
    IF s.abort # "none" THEN s
    ELSE
    LET s1 == queue_stack_detach([s EXCEPT !.win[w].stack = Nil], k, w)
        pos == Position(s.stack[k].windows, w)
        rest == RemoveAt(s.stack[k].windows, pos)
        was_active == s.stack[k].active = w
        \* windows.get(pos).or_else(|| windows.get(pos - 1)), pos zero-based
        underflows == was_active /\ pos > Len(rest) /\ pos = 1
        to_focus == IF pos <= Len(rest) THEN rest[pos]
                    ELSE IF pos > 1 THEN rest[pos - 1]
                    ELSE Nil
        s2 == IF was_active /\ to_focus # Nil
              THEN queue_stack_raise_window(
                       [s1 EXCEPT !.stack[k].windows = rest, !.stack[k].active = to_focus],
                       k, to_focus)
              ELSE [s1 EXCEPT !.stack[k].windows = rest]
    IN  IF pos = 0 THEN s1
        ELSE IF rest = << >>
        THEN stack_destroyed(detach_branch(IF underflows THEN Wrapped(s2) ELSE s2,
                                           s2.stack[k].parent, "Stack", k),
                             k)
        ELSE s2

\* Tiler::workspace_switch and Tiler::set_active_window
RECURSIVE workspace_switch(_, _, _)
RECURSIVE set_active_window(_, _, _)
workspace_switch(s, workspace, fuel) ==
    IF s.abort # "none" THEN s
    ELSE IF s.active_workspace = workspace THEN s
    ELSE IF fuel = 0 THEN Abort(s, "recursion")
    ELSE
    LET registered == { s.windows[i] : i \in WinIds } \ {Nil}
        shown(o) ==
            IF s.win[o].workspace # workspace THEN FALSE
            ELSE IF s.win[o].stack # Nil THEN s.stack[s.win[o].stack].active = o
            ELSE TRUE
        s1 == [s EXCEPT !.active_workspace = workspace,
                        !.active_workspace_changed = TRUE,
                        !.win = [o \in Objs |->
                                    IF o \in registered
                                    THEN [s.win[o] EXCEPT !.visible = shown(o)]
                                    ELSE s.win[o]],
                        !.event_queue.windows =
                            [i \in WinIds |->
                                IF s.windows[i] # Nil
                                   /\ s.win[s.windows[i]].visible # shown(s.windows[i])
                                THEN [@[i] EXCEPT !.visibility = Some(shown(s.windows[i]))]
                                ELSE @[i]]]
    IN  IF ~ s1.workspaces[workspace].exists THEN Abort(s1, "expect")
        ELSE IF s1.workspaces[workspace].focus # Nil
        THEN set_active_window(s1, s1.workspaces[workspace].focus, fuel - 1)
        ELSE s1

set_active_window(s, w, fuel) ==
    IF s.abort # "none" THEN s
    ELSE
    LET s1 == [s EXCEPT !.active = w, !.active_changed = TRUE]
    IN  IF s1.active_workspace # s1.win[w].workspace
        THEN workspace_switch(s1, s1.win[w].workspace, fuel)
        ELSE s1

\* Tiler::attach_to_window_in_fork
attach_to_window_in_fork(s, window, attaching, f) ==
    IF s.abort # "none" THEN s
    ELSE IF s.fork[f].right.kind = "None"
    THEN fork_set([s EXCEPT !.fork[f].right = BranchWindow(window)], window, f)
    ELSE IF FreeForks(s) = {} THEN Abort(s, "bound")
    ELSE
    LET new_fork == Lowest(FreeForks(s))
        workspace == s.fork[f].workspace
        cell == [Fork_new(Rect(1, 1, 1, 1), BranchWindow(attaching), workspace)
                    EXCEPT !.right = BranchWindow(window)]
        s1 == fork_register([s EXCEPT !.fork[new_fork] = cell], new_fork)
        s2 == fork_set(fork_set(s1, attaching, new_fork), window, new_fork)
        s3 == branch_assign(s2, f, branch(s2, f, "Window", attaching), BranchFork(new_fork))
        s4 == fork_work_area_refresh(s3, f)
        s5 == reset_orientation(s4, new_fork)
    IN  fork_work_area_refresh(s5, new_fork)

\* Tiler::attach_to_window
attach_to_window(s, new_window, attach_to) ==
    IF s.abort # "none" THEN s
    ELSE
    LET k == s.win[attach_to].stack
        f == s.win[attach_to].fork
    IN  IF k # Nil /\ f # Nil
        THEN LET s1 == stack_attach(fork_set(s, new_window, f), k, new_window)
             IN  stack_work_area_update(s1, k, s1.stack[k].area)
        ELSE IF f # Nil
        THEN attach_to_window_in_fork(s, new_window, attach_to, f)
        ELSE s

\* Tiler::attach_to_workspace
attach_to_workspace(s, window, workspace) ==
    IF s.abort # "none" THEN s
    ELSE
    LET r == s.display[s.workspaces[workspace].parent].area
        root == s.workspaces[workspace].fork
        attach_to == IF root = Nil THEN Nil ELSE largest_window(s, root)
        f == Lowest(FreeForks(s))
        s1 == fork_register(
                  [s EXCEPT !.fork[f] = Fork_new(r, BranchWindow(window), workspace)], f)
        s2 == [fork_set(s1, window, f) EXCEPT !.workspaces[workspace].focus = window,
                                              !.workspaces[workspace].fork = f]
    IN  IF attach_to # Nil
        THEN fork_work_area_refresh(attach_to_window_in_fork(s, window, attach_to, root), root)
        ELSE IF FreeForks(s) = {} THEN Abort(s, "bound")
        ELSE IF Fork_new_split(r) < 0 THEN Underflow(s)
        ELSE fork_work_area_refresh(s2, f)

\* Tiler::attach, without an active window: after set_active_window
attach_first(s, window) ==
    IF s.abort # "none" THEN s
    ELSE IF ~ s.workspaces[s.active_workspace].exists THEN Abort(s, "expect")
    ELSE attach_to_workspace(s, window, s.active_workspace)

\* Tiler::attach
attach(s, window) ==
    LET s1 == [s EXCEPT !.windows[s.win[window].id] = window]
    IN  IF s1.active # Nil
        THEN attach_to_window(s1, window, s1.active)
        ELSE attach_first(set_active_window(s1, window, MaxDepth), window)

\* Tiler::detach, its end: the active window is forgotten when it was detached
active_forget(s, window) ==
    IF s.abort # "none" THEN s
    ELSE IF s.active = window
    THEN [s EXCEPT !.active = Nil, !.active_changed = FALSE]
    ELSE s

\* Tiler::detach
detach(s, window) ==
    IF s.abort # "none" THEN s
    ELSE
    LET s1 == [s EXCEPT !.windows[s.win[window].id] = Nil]
        k == s.win[window].stack
        f == s.win[window].fork
    IN  IF k # Nil THEN stack_detach(fork_take(s1, window), k, window)
        ELSE IF f # Nil
        THEN active_forget(detach_branch(fork_take(s1, window), f, "Window", window), window)
        ELSE active_forget(s1, window)


\* ------------------------------------------------- displays and workspaces
\* DisplayPtr::remove_association
remove_association(s, d, workspace) == [s EXCEPT !.display[d].workspaces = @ \ {workspace}]

\* DisplayPtr::assign_workspace
assign_workspace(s, d, workspace) ==
    LET previous_parent == s.workspaces[workspace].parent
        s1 == [s EXCEPT !.display[d].workspaces = @ \cup {workspace}]
    IN  IF workspace \in s.display[d].workspaces THEN s
        ELSE IF previous_parent = d THEN s1
        ELSE remove_association([s1 EXCEPT !.workspaces[workspace].parent = d],
                                previous_parent, workspace)

\* DisplayPtr::create_workspace with WorkspacePtr::new
create_workspace(s, d, id) ==
    [s EXCEPT !.workspaces[id] = [exists |-> TRUE, focus |-> Nil, fork |-> Nil, parent |-> d],
              !.display[d].workspaces = @ \cup {id},
              !.display[d].active = IF @ = NoId THEN id ELSE @]

\* Tiler::workspace_update
workspace_update(s, workspace, d) ==
    IF s.displays[d] = Nil THEN s
    ELSE IF s.workspaces[workspace].exists
    THEN assign_workspace(s, s.displays[d], workspace)
    ELSE create_workspace(s, s.displays[d], workspace)

\* DisplayPtr::work_area_update: every workspace of the display is retiled
RECURSIVE display_retile(_, _, _)
display_retile(s, todo, r) ==
    IF todo = {} THEN s
    ELSE LET k == Lowest(todo)
             root == s.workspaces[k].fork
         IN  display_retile(IF root # Nil THEN fork_work_area_update(s, root, r, MaxDepth)
                            ELSE s,
                            todo \ {k}, r)

display_work_area_update(s, d, r) ==
    display_retile([s EXCEPT !.display[d].area = r], s.display[d].workspaces, r)

\* Tiler::display_update with DisplayPtr::new
display_update(s, id, r) ==
    IF s.displays[id] # Nil THEN display_work_area_update(s, s.displays[id], r)
    ELSE IF FreeDisplays(s) = {} THEN Abort(s, "bound")
    ELSE LET d == Lowest(FreeDisplays(s))
         IN  display_work_area_update(
                 [s EXCEPT !.displays[id] = d,
                           !.display[d] = [live |-> TRUE, area |-> r, active |-> NoId,
                                           workspaces |-> {}]],
                 d, r)

\* Tiler::display_detach
RECURSIVE migrate(_, _, _)
migrate(s, todo, target) ==
    IF todo = {} THEN s
    ELSE migrate(assign_workspace(s, target, Lowest(todo)), todo \ {Lowest(todo)}, target)

display_detach(s, id) ==
    IF ~ s.workspaces[s.active_workspace].exists THEN Abort(s, "expect")
    ELSE IF s.displays[id] = Nil THEN s
    ELSE LET target == s.workspaces[s.active_workspace].parent
             d == s.displays[id]
         IN  migrate([s EXCEPT !.displays[id] = Nil, !.display[d].workspaces = {}],
                     s.display[d].workspaces, target)

\* ------------------------------------------------------ focus, stack, swap
\* WindowPtr::focus
RECURSIVE stack_visibility(_, _, _)
stack_visibility(s, ws, w) ==
    IF ws = << >> THEN s
    ELSE stack_visibility(queue_window_visibility(s, s.win[Head(ws)].id, Head(ws) = w),
                          Tail(ws), w)

window_focus(s, w) ==
    IF s.active = w THEN s
    ELSE IF s.win[w].stack # Nil
    THEN set_active_window(stack_visibility(s, s.stack[s.win[w].stack].windows, w),
                           w, MaxDepth)
    ELSE set_active_window(s, w, MaxDepth)

\* StackPtr::new, in the lowest free cell k
StackPtr_new(s, k, w, parent) ==
    [s EXCEPT !.stack[k] = [live |-> TRUE, area |-> s.win[w].rect, active |-> w,
                            parent |-> parent, windows |-> << w >>,
                            workspace |-> s.win[w].workspace],
              !.win[w].stack = k]

\* WindowPtr::stack_toggle of a stacked window, after stack.detach: a stack
\* left empty gives its place in the fork to the window
unstacked(s, k, f, w) ==
    IF s.abort # "none" THEN s
    ELSE IF s.stack[k].windows = << >> /\ f # Nil
    THEN IF branch(s, f, "Stack", k) = "None" THEN s
         ELSE queue_stack_destroy(
                  branch_assign(s, f, branch(s, f, "Stack", k), BranchWindow(w)), k)
    ELSE s

\* WindowPtr::stack_toggle
stack_toggle(s, w) ==
    LET k == s.win[w].stack
        f == s.win[w].fork
        n == Lowest(FreeStacks(s))
        s2 == StackPtr_new(s, n, w, f)
        slot == branch(s, f, "Window", w)
    IN  IF k # Nil THEN unstacked(stack_detach(s, k, w), k, f, w)
        ELSE IF f = Nil THEN s
        ELSE IF FreeStacks(s) = {} THEN Abort(s, "bound")
        ELSE IF slot = "None" THEN stack_detach(s2, n, w)
        ELSE queue_stack_assign(
                 queue_stack_update(branch_assign(s2, f, slot, BranchStack(n)), n), n, w)

\* one half of WindowPtr::swap_position_with: `our` gives its place to `their`
swap_half(s, our, their) ==
    IF s.abort # "none" THEN s
    ELSE IF s.win[our].stack # Nil
    THEN stack_work_area_refresh(stack_swap(s, s.win[our].stack, our, their), s.win[our].stack)
    ELSE IF s.win[our].fork # Nil
    THEN fork_work_area_refresh(fork_swap(s, s.win[our].fork, our, their), s.win[our].fork)
    ELSE s

\* WindowPtr::swap_position_with
swap_position_with(s, w, other) == swap_half(swap_half(s, w, other), other, w)

\* Tiler::toggle_orientation
toggle_orientation(s) ==
    IF s.active # Nil /\ s.win[s.active].fork # Nil
    THEN fork_toggle_orientation(s, s.win[s.active].fork)
    ELSE s

\* Tiler::fork_resize
fork_resize(s, handle, split) ==
    IF handle \in s.forks THEN fork_resize_to(s, handle, split) ELSE s


\* --------------------------------------------------- directional searching
Directions == {"Above", "Below", "Left", "Right"}

Point(x, y) == [x |-> x, y |-> y]
north(r) == Point(x_center(r), r.y)
south(r) == Point(x_center(r), y_end(r))
east(r) == Point(x_end(r), y_center(r))
west(r) == Point(r.x, y_center(r))

\* Rect::is_below, is_above, is_right, is_left as used as the skip condition
\* of a search in the direction
filter(dir, a, b) ==
    IF dir = "Above" THEN a.y < b.y
    ELSE IF dir = "Below" THEN a.y > b.y
    ELSE IF dir = "Left" THEN a.x < b.x
    ELSE a.x > b.x

\* The two points of Rect::distance_upward, _downward, _westward, _eastward
from_point(dir, a) ==
    IF dir = "Above" THEN north(a)
    ELSE IF dir = "Below" THEN south(a)
    ELSE IF dir = "Left" THEN east(a)
    ELSE west(a)

to_point(dir, b) ==
    IF dir = "Above" THEN south(b)
    ELSE IF dir = "Below" THEN north(b)
    ELSE IF dir = "Left" THEN west(b)
    ELSE east(b)

\* Point::distance, squared: the square root is monotone, and with wrapping
\* arithmetic (other - self)^2 is the true square for lengths below 2^16
distance2(p, q) == (q.x - p.x) * (q.x - p.x) + (q.y - p.y) * (q.y - p.y)

\* other.x - self.x or other.y - self.y is negative
distance_underflows(p, q) == q.x < p.x \/ q.y < p.y

\* The first candidate in scan order with the least distance, Nil without one
RECURSIVE nearest(_, _, _, _, _)
nearest(rects, order, from, dir, best) ==
    IF order = << >> THEN best.ptr
    ELSE LET c == Head(order)
             d == distance2(from_point(dir, from), to_point(dir, rects[c]))
         IN  IF best.ptr = NoId \/ d < best.d
             THEN nearest(rects, Tail(order), from, dir, [ptr |-> c, d |-> d])
             ELSE nearest(rects, Tail(order), from, dir, best)

\* The members of a set of integers in increasing order
RECURSIVE Ascending(_)
Ascending(S) == IF S = {} THEN << >> ELSE << Lowest(S) >> \o Ascending(S \ {Lowest(S)})

\* Tiler::window_in_direction: found is the window or Nil, panics is whether
\* a distance computation underflows
window_in_direction(s, dir) ==
    LET a == s.win[s.active]
        ids == { i \in WinIds :
                   /\ s.windows[i] # Nil
                   /\ s.win[s.windows[i]].workspace = a.workspace
                   /\ s.windows[i] # s.active
                   /\ ~ (a.stack # Nil /\ s.win[s.windows[i]].stack = a.stack)
                   /\ ~ filter(dir, a.rect, s.win[s.windows[i]].rect) }
        rects == [i \in ids |-> s.win[s.windows[i]].rect]
        found == nearest(rects, Ascending(ids), a.rect, dir, [ptr |-> NoId, d |-> 0])
    IN  IF s.active = Nil THEN [found |-> Nil, panics |-> FALSE]
        ELSE [found |-> IF ids = {} THEN Nil ELSE s.windows[found],
              panics |-> \E i \in ids :
                            distance_underflows(from_point(dir, a.rect), to_point(dir, rects[i]))]

\* Tiler::display_in_direction
display_in_direction(s, dir) ==
    LET here == s.workspaces[s.active_workspace].parent
        a == s.display[here].area
        ids == { i \in DisplayIds :
                   /\ s.displays[i] # Nil
                   /\ s.displays[i] # here
                   /\ ~ filter(dir, a, s.display[s.displays[i]].area) }
        rects == [i \in ids |-> s.display[s.displays[i]].area]
        found == nearest(rects, Ascending(ids), a, dir, [ptr |-> NoId, d |-> 0])
    IN  IF ~ s.workspaces[s.active_workspace].exists THEN [found |-> Nil, panics |-> FALSE]
        ELSE [found |-> IF ids = {} THEN Nil ELSE s.displays[found],
              panics |-> \E i \in ids :
                            distance_underflows(from_point(dir, a), to_point(dir, rects[i]))]

\* Tiler::focus_display
focus_display(s, d) ==
    LET k == s.display[d].active
    IN  IF k # NoId /\ k \in s.display[d].workspaces /\ s.workspaces[k].focus # Nil
        THEN set_active_window(s, s.workspaces[k].focus, MaxDepth)
        ELSE s

\* Tiler::focus_display_above, _below, _left, _right
focus_display_found(s, r) ==
    IF r.found # Nil
    THEN focus_display(IF r.panics THEN Wrapped(s) ELSE s, r.found)
    ELSE IF r.panics THEN Wrapped(s) ELSE s

focus_display_in(s, dir) == focus_display_found(s, display_in_direction(s, dir))

\* Tiler::focus_above, focus_below, focus_left_absolute, focus_right_absolute
focus_found(s, dir, r) ==
    IF r.found # Nil
    THEN set_active_window(IF r.panics THEN Wrapped(s) ELSE s, r.found, MaxDepth)
    ELSE focus_display_in(IF r.panics THEN Wrapped(s) ELSE s, dir)

focus_absolute(s, dir) == focus_found(s, dir, window_in_direction(s, dir))

\* Tiler::focus_with_stack that never asks the stack
focus_without_stack(s, dir) == IF s.active = Nil THEN s ELSE focus_absolute(s, dir)

\* Tiler::focus_with_stack, for Tiler::focus_left and Tiler::focus_right
focus_with_stack(s, dir) ==
    LET k == s.win[s.active].stack
        next == IF dir = "Left" THEN select_left(s, k) ELSE select_right(s, k)
    IN  IF s.active = Nil THEN s
        ELSE IF k # Nil /\ next # Nil
        THEN set_active_window([s EXCEPT !.stack[k].active = next], next, MaxDepth)
        ELSE focus_absolute(s, dir)

\* Request::FocusAbove, FocusBelow, FocusLeft, FocusRight
focus_in(s, dir) ==
    IF dir \in {"Left", "Right"} THEN focus_with_stack(s, dir) ELSE focus_absolute(s, dir)

\* ------------------------------------------------------------------ moving
\* Tiler::move_from_stack
move_from_stack(s, w, f, k, dir) ==
    LET orientation == IF dir \in {"Above", "Below"} THEN "Vertical" ELSE "Horizontal"
        stack_on_left == dir \in {"Below", "Right"}
        r == s.stack[k].area
        slot == branch(s, f, "Stack", k)
        new_fork == Lowest(FreeForks(s))
        left == IF stack_on_left THEN BranchStack(k) ELSE BranchWindow(w)
        right == IF stack_on_left THEN BranchWindow(w) ELSE BranchStack(k)
        cell == [Fork_new(r, left, s.fork[f].workspace) EXCEPT !.right = right, !.parent = f]
        s1 == fork_register(
                  [branch_assign(s, f, slot, BranchFork(new_fork)) EXCEPT !.fork[new_fork] = cell],
                  new_fork)
    IN  IF slot = "None" THEN s
        ELSE IF Len(s.stack[k].windows) = 1
        THEN fork_work_area_refresh(
                 queue_stack_destroy(branch_assign(s, f, slot, BranchWindow(w)), k), f)
        ELSE IF FreeForks(s) = {} THEN Abort(s, "bound")
        ELSE IF Fork_new_split(r) < 0 THEN Underflow(s)
        ELSE fork_work_area_refresh(orientation_set(s1, new_fork, orientation), f)

\* Tiler::move_in_direction towards the window r.found
move_to(s, dir, r) ==
    LET w == s.active
        f == s.win[w].fork
        k == s.win[w].stack
        matched_fork == s.win[r.found].fork
        s0 == IF r.panics THEN Wrapped(s) ELSE s
    IN  IF k # Nil THEN move_from_stack(s, w, f, k, dir)
        ELSE IF r.found = Nil \/ matched_fork = Nil THEN s0
        ELSE IF f = matched_fork /\ s.fork[f].right.kind # "None"
        THEN fork_work_area_refresh(
                 [s0 EXCEPT !.fork[f].left = s.fork[f].right, !.fork[f].right = s.fork[f].left],
                 f)
        ELSE set_active_window(
                 attach_to_window_in_fork(detach(s0, w), w, r.found, matched_fork),
                 w, MaxDepth)

\* Tiler::move_in_direction
move_in_direction(s, dir) ==
    IF s.active = Nil THEN s
    ELSE IF s.win[s.active].fork = Nil THEN s
    ELSE move_to(s, dir, window_in_direction(s, dir))

\* Tiler::move_horizontally, for Tiler::move_left and Tiler::move_right
move_horizontally(s, dir) ==
    LET k == s.win[s.active].stack
        m == IF dir = "Left" THEN stack_move_left(s, k) ELSE stack_move_right(s, k)
    IN  IF s.active = Nil THEN s
        ELSE IF k # Nil /\ m.moved
        THEN queue_stack_movement(m.st, k, StackMovement(dir, s.win[s.stack[k].active].id))
        ELSE move_in_direction(s, dir)

\* Request::MoveAbove, MoveBelow, MoveLeft, MoveRight
move_in(s, dir) ==
    IF dir \in {"Left", "Right"} THEN move_horizontally(s, dir) ELSE move_in_direction(s, dir)


\* ------------------------------------------------------------ reclamation
Range(q) == { q[n] : n \in 1 .. Len(q) }
Children(s, f) == { s.fork[f].left, s.fork[f].right }

\* The cells the tiler can reach from its registries, cursors and workspaces
RECURSIVE Reach(_, _)
Reach(s, R) ==
    LET w == (R.w \cup { b.ptr : b \in { c \in UNION { Children(s, f) : f \in R.f } :
                                          c.kind = "Window" } }
                  \cup UNION { Range(s.stack[k].windows) \cup {s.stack[k].active} : k \in R.k })
             \ {Nil}
        f == (R.f \cup { s.win[o].fork : o \in R.w }
                  \cup { s.fork[g].parent : g \in R.f }
                  \cup { b.ptr : b \in { c \in UNION { Children(s, g) : g \in R.f } :
                                          c.kind = "Fork" } }
                  \cup { s.stack[k].parent : k \in R.k })
             \ {Nil}
        k == (R.k \cup { s.win[o].stack : o \in R.w }
                  \cup { b.ptr : b \in { c \in UNION { Children(s, g) : g \in R.f } :
                                          c.kind = "Stack" } })
             \ {Nil}
        N == [w |-> w, f |-> f, k |-> k]
    IN  IF N = R THEN R ELSE Reach(s, N)

Roots(s) ==
    [w |-> ({ s.windows[i] : i \in WinIds } \cup {s.active}
              \cup { s.workspaces[k].focus : k \in WorkspaceIds }) \ {Nil},
     f |-> (s.forks \cup { s.workspaces[k].fork : k \in WorkspaceIds }) \ {Nil},
     k |-> {}]

\* Dropping the last reference frees a cell
Keep(s, R, D) ==
        [s EXCEPT !.win = [o \in Objs |-> IF o \in R.w THEN s.win[o] ELSE NoWindow],
                  !.fork = [f \in ForkIds |-> IF f \in R.f THEN s.fork[f] ELSE NoFork],
                  !.stack = [k \in StackIds |-> IF k \in R.k THEN s.stack[k] ELSE NoStack],
                  !.display = [d \in DispObjs |-> IF d \in D THEN s.display[d] ELSE NoDisplay]]

Collect(s) ==
    Keep(s, Reach(s, Roots(s)),
         ({ s.displays[i] : i \in DisplayIds }
            \cup { s.workspaces[k].parent : k \in WorkspaceIds }) \ {Nil})

\* ------------------------------------------------------------------ events
\* The orders in which an iterator can walk the keys S of a HashMap
HashOrders(S) ==
    { q \in [1 .. Cardinality(S) -> S] : \A i, j \in 1 .. Cardinality(S) : q[i] = q[j] => i = j }

\* EventQueue::consume_events, the closure over self.forks
fork_events(q, f) ==
    IF q.forks[f].destroy THEN << [type |-> "ForkDestroy", id |-> f] >>
    ELSE IF q.forks[f].update # None
    THEN << [type |-> "Fork", id |-> f, update |-> q.forks[f].update[1]] >>
    ELSE << >>

\* EventQueue::consume_events, the closure over events.assignments
RECURSIVE attachments(_, _, _)
attachments(q, k, ids) ==
    IF ids = << >> THEN << >>
    ELSE (IF q.stacks[k].assignments[Head(ids)] = Some(TRUE)
          THEN << [type |-> "StackAssign", id |-> k, window |-> Head(ids)] >>
          ELSE IF q.stacks[k].assignments[Head(ids)] = Some(FALSE)
          THEN << [type |-> "StackDetach", id |-> k, window |-> Head(ids)] >>
          ELSE << >>)
         \o attachments(q, k, Tail(ids))

\* The closure over self.stacks when a destroyed stack keeps its placement
stack_events_with_place(q, k) ==
    (IF q.stacks[k].destroy THEN << [type |-> "StackDestroy", id |-> k] >> ELSE << >>)
    \o (IF q.stacks[k].place # None
        THEN << [type |-> "StackPlace", id |-> k, placement |-> q.stacks[k].place[1]] >>
        ELSE << >>)
    \o (IF q.stacks[k].visibility # None
        THEN << [type |-> "StackVisibility", id |-> k, visible |-> q.stacks[k].visibility[1]] >>
        ELSE << >>)
    \o attachments(q, k, Ascending(WinIds))

\* EventQueue::consume_events, the closure over self.stacks
stack_events(q, k) ==
    (IF q.stacks[k].destroy THEN << [type |-> "StackDestroy", id |-> k] >>
     ELSE (IF q.stacks[k].place # None
           THEN << [type |-> "StackPlace", id |-> k, placement |-> q.stacks[k].place[1]] >>
           ELSE << >>)
          \o (IF q.stacks[k].visibility # None
              THEN << [type |-> "StackVisibility", id |-> k,
                       visible |-> q.stacks[k].visibility[1]] >>
              ELSE << >>))
    \o attachments(q, k, Ascending(WinIds))

\* EventQueue::consume_events, the closure over self.windows
window_events(q, i) ==
    (IF q.windows[i].place # None
     THEN << [type |-> "WindowPlace", id |-> i, placement |-> q.windows[i].place[1]] >>
     ELSE << >>)
    \o (IF q.windows[i].visibility # None
        THEN << [type |-> "WindowVisibility", id |-> i, visible |-> q.windows[i].visibility[1]] >>
        ELSE << >>)

RECURSIVE all_fork_events(_, _)
all_fork_events(q, keys) ==
    IF keys = << >> THEN << >> ELSE fork_events(q, Head(keys)) \o all_fork_events(q, Tail(keys))

RECURSIVE all_stack_events(_, _)
all_stack_events(q, keys) ==
    IF keys = << >> THEN << >> ELSE stack_events(q, Head(keys)) \o all_stack_events(q, Tail(keys))

RECURSIVE all_window_events(_, _)
all_window_events(q, keys) ==
    IF keys = << >> THEN << >> ELSE window_events(q, Head(keys)) \o all_window_events(q, Tail(keys))

\* The keys of self.windows: the ids with an entry that yields something
window_keys(q) == { i \in WinIds : q.windows[i] # WindowEvents_default }

\* A drain that walks the window events before the fork and stack events
consume_windows_first(q, order) ==
    all_window_events(q, order)
    \o all_fork_events(q, Ascending(ForkIds))
    \o all_stack_events(q, Ascending(StackIds))
    \o q.events

\* EventQueue::consume_events as the list it yields when the HashMap of the
\* window events is walked in the given order; the two BTreeMaps are walked
\* in key order
consume_events(q, order) ==
    all_fork_events(q, Ascending(ForkIds))
    \o all_stack_events(q, Ascending(StackIds))
    \o all_window_events(q, order)
    \o q.events

\* Tiler::events: the drain that ends every request
events(s) ==
    [s EXCEPT !.active_changed = FALSE,
              !.event_queue = EventQueue_default,
              !.drained =
                  Drained(s.event_queue,
                          IF s.active_workspace_changed
                          THEN Some([type |-> "FocusWorkspace", workspace |-> s.active_workspace])
                          ELSE None,
                          IF s.active_changed /\ s.active # Nil
                          THEN Some([type |-> "Focus", id |-> s.win[s.active].id])
                          ELSE None)]

\* The event list of a drain d, the iterator chain of Tiler::events
Response(d, order) == consume_events(d.queue, order) \o d.workspace_switch \o d.focus

\* Every list the caller can receive for d
Responses(d) == { Response(d, order) : order \in HashOrders(window_keys(d.queue)) }

\* Tiler::window for an id that is not registered
window(s, id) ==
    IF FreeObjs(s) = {} THEN Abort(s, "bound")
    ELSE LET o == Lowest(FreeObjs(s))
         IN  [s EXCEPT !.win[o] = Window_new(id), !.windows[id] = o]

\* ----------------------------------------------------------------- system
\* Tiler::default
Default ==
    [ win |-> [o \in Objs |-> NoWindow], fork |-> [f \in ForkIds |-> NoFork],
      stack |-> [k \in StackIds |-> NoStack], display |-> [d \in DispObjs |-> NoDisplay],
      windows |-> [i \in WinIds |-> Nil], forks |-> {},
      displays |-> [i \in DisplayIds |-> Nil],
      workspaces |-> [k \in WorkspaceIds |-> NoWorkspace],
      active |-> Nil, active_changed |-> FALSE, active_workspace |-> 0,
      active_workspace_changed |-> FALSE, event_queue |-> EventQueue_default,
      drained |-> NoEvents, abort |-> "none", uf |-> FALSE ]

\* The variables hold the tiler s
Holds(s) ==
    /\ win = s.win
    /\ fork = s.fork
    /\ stack = s.stack
    /\ display = s.display
    /\ windows = s.windows
    /\ forks = s.forks
    /\ displays = s.displays
    /\ workspaces = s.workspaces
    /\ active = s.active
    /\ active_changed = s.active_changed
    /\ active_workspace = s.active_workspace
    /\ active_workspace_changed = s.active_workspace_changed
    /\ event_queue = s.event_queue
    /\ drained = s.drained
    /\ abort = "none"

InitDefault == Holds(Default) /\ last = "Init" /\ steps = StepsDefault /\ thread = TilerThread_default

\* The start of examples/main.rs: display_update(0, r), workspace_update(0, 0)
\* and one Tiler::window call for each of the first n ids
RECURSIVE with_windows(_, _)
with_windows(s, n) == IF n = 0 THEN s ELSE window(with_windows(s, n - 1), n - 1)

Booted(r, n) == with_windows(workspace_update(display_update(Default, 0, r), 0, 0), n)

InitTiled ==
    /\ \E r \in DisplayRects : Holds(Booted(r, TiledWindows))
    /\ last = "Window"
    /\ steps = StepsTiled
    /\ thread = TilerThread_default

\* A fresh tiler, or one that a client has set up
Init == InitDefault \/ InitTiled

TreeRect == Rect(1, 1, 2560, 1440)

InitTree ==
    /\ Holds(Booted(TreeRect, TreeWindows))
    /\ last = "Window"
    /\ steps = StepsTree
    /\ thread = TilerThread_default

\* The next state holds the tiler c and the answer c.drained. Nothing is left
\* when the tiler is what it was and the answer is empty.
Leaves(c) ==
    /\ c # State
    /\ abort' = "none"
    /\ win' = c.win
    /\ fork' = c.fork
    /\ stack' = c.stack
    /\ display' = c.display
    /\ windows' = c.windows
    /\ forks' = c.forks
    /\ displays' = c.displays
    /\ workspaces' = c.workspaces
    /\ active' = c.active
    /\ active_changed' = c.active_changed
    /\ active_workspace' = c.active_workspace
    /\ active_workspace_changed' = c.active_workspace_changed
    /\ event_queue' = c.event_queue
    /\ drained' = c.drained

\* How the run r of a request ends with overflow checks on or off
Outcome(r, overflow_checks) == IF overflow_checks /\ r.uf THEN "overflow" ELSE r.abort

\* The state that the run of a request leaves behind. A panic ends the
\* process: the tiler is left as it was, nothing is answered and abort records
\* the panic. A request that changes nothing and answers nothing is a
\* stuttering step.
Handles(r, name) ==
    /\ abort = "none"
    /\ steps > 0
    /\ r.abort # "bound"
    /\ \E overflow_checks \in (IF r.uf THEN BOOLEAN ELSE {FALSE}) :
          IF Outcome(r, overflow_checks) # "none"
          THEN /\ abort' = Outcome(r, overflow_checks)
               /\ drained' = NoEvents
               /\ UNCHANGED << win, fork, stack, display, windows, forks, displays,
                               workspaces, active, active_changed, active_workspace,
                               active_workspace_changed, event_queue >>
          ELSE Leaves([Collect(r) EXCEPT !.uf = FALSE])
    /\ last' = name
    /\ steps' = steps - 1

\* A request handled by a direct call of Service::handle
Becomes(r, name) == Handles(r, name) /\ UNCHANGED thread

\* Tiler::window(id)
Window(id) == windows[id] = Nil /\ Becomes(window(State, id), "Window")

\* Service::handle, the arms of the match that look a window up
request_attach(s, id) == IF s.windows[id] # Nil THEN attach(s, s.windows[id]) ELSE s

request_detach(s, id) == IF s.windows[id] # Nil THEN detach(s, s.windows[id]) ELSE s

request_focus(s, id) == IF s.windows[id] # Nil THEN window_focus(s, s.windows[id]) ELSE s

request_swap(s, a, b) ==
    IF s.windows[a] # Nil /\ s.windows[b] # Nil
    THEN swap_position_with(s, s.windows[a], s.windows[b])
    ELSE s

\* Tiler::stack_toggle
tiler_stack_toggle(s) == IF s.active # Nil THEN stack_toggle(s, s.active) ELSE s

\* Service::handle, one action per request: the arm of the match, then
\* Tiler::events. A request that names an unregistered window changes nothing.
\* Request::Attach of a registered window that no fork and no stack holds
Attach(id) ==
    /\ windows[id] # Nil
    /\ win[windows[id]].fork = Nil
    /\ win[windows[id]].stack = Nil
    /\ Becomes(events(request_attach(State, id)), "Attach")

Detach(id) == windows[id] # Nil /\ Becomes(events(request_detach(State, id)), "Detach")

DisplayUpdate(id, r) == Becomes(events(display_update(State, id, r)), "DisplayUpdate")

DisplayDetach(id) == Becomes(events(display_detach(State, id)), "DisplayDetach")

Focus(id) == windows[id] # Nil /\ Becomes(events(request_focus(State, id)), "Focus")

FocusIn(dir) == Becomes(events(focus_in(State, dir)), "FocusIn")

FocusDisplay(dir) == Becomes(events(focus_display_in(State, dir)), "FocusDisplay")

Move(dir) == Becomes(events(move_in(State, dir)), "Move")

ToggleOrientation == Becomes(events(toggle_orientation(State)), "ToggleOrientation")

ToggleStack == Becomes(events(tiler_stack_toggle(State)), "ToggleStack")

Resize(f, split) == Becomes(events(fork_resize(State, f, split)), "Resize")

Swap(a, b) ==
    /\ windows[a] # Nil
    /\ windows[b] # Nil
    /\ Becomes(events(request_swap(State, a, b)), "Swap")

WorkspaceSwitch(k) == Becomes(events(workspace_switch(State, k, MaxDepth)), "WorkspaceSwitch")

WorkspaceUpdate(k, d) == Becomes(events(workspace_update(State, k, d)), "WorkspaceUpdate")

Next ==
    \/ \E id \in WinIds : Window(id)
    \/ \E id \in WinIds : Attach(id)
    \/ \E id \in WinIds : Detach(id)
    \/ \E id \in DisplayIds, r \in DisplayRects : DisplayUpdate(id, r)
    \/ \E id \in DisplayIds : DisplayDetach(id)
    \/ \E id \in WinIds : Focus(id)
    \/ \E dir \in Directions : FocusIn(dir)
    \/ \E dir \in Directions : FocusDisplay(dir)
    \/ \E dir \in Directions : Move(dir)
    \/ ToggleOrientation
    \/ ToggleStack
    \/ \E f \in ForkIds, split \in ResizeSplits : Resize(f, split)
    \/ \E a, b \in WinIds : Swap(a, b)
    \/ \E k \in WorkspaceIds : WorkspaceSwitch(k)
    \/ \E k \in WorkspaceIds, d \in DisplayIds : WorkspaceUpdate(k, d)

Spec == Init /\ [][Next]_vars

\* Attaching, detaching and focusing the windows of one workspace
NextTree ==
    \/ \E id \in WinIds : Attach(id)
    \/ \E id \in WinIds : Detach(id)
    \/ \E id \in WinIds : Focus(id)

SpecTree == InitTree /\ [][NextTree]_vars

\* ------------------------------------------------------------------ trees
\* The forks of the workspace trees: the root forks and the forks under them
RECURSIVE Under(_)
Under(F) ==
    LET N == F \cup { b.ptr : b \in { c \in UNION { { fork[f].left, fork[f].right } : f \in F } :
                                       c.kind = "Fork" } }
    IN  IF N = F THEN F ELSE Under(N)

RootForks == { workspaces[k].fork : k \in { j \in WorkspaceIds : workspaces[j].exists } } \ {Nil}
TreeForks == Under(RootForks)
TreeBranches == UNION { { fork[f].left, fork[f].right } : f \in TreeForks }
TreeStacks == { b.ptr : b \in { c \in TreeBranches : c.kind = "Stack" } }
WindowsInTrees ==
    { b.ptr : b \in { c \in TreeBranches : c.kind = "Window" } }
        \cup UNION { Range(stack[k].windows) : k \in TreeStacks }
Registered == { windows[i] : i \in WinIds } \ {Nil}

\* The area a child of a fork was given
BranchArea(b) ==
    IF b.kind = "Window" THEN win[b.ptr].rect
    ELSE IF b.kind = "Fork" THEN fork[b.ptr].area
    ELSE stack[b.ptr].area

\* The children of fork f partition its area at its split
Tiled(f) ==
    LET F == fork[f]
        a == F.area
    IN  IF F.right.kind = "None"
        THEN F.left.kind # "None" => BranchArea(F.left) = a
        ELSE IF F.orientation = "Horizontal"
        THEN /\ BranchArea(F.left) = Rect(a.x, a.y, F.split_handle, a.height)
             /\ BranchArea(F.right) =
                    Rect(a.x + F.split_handle, a.y, a.width - F.split_handle, a.height)
        ELSE /\ BranchArea(F.left) = Rect(a.x, a.y, a.width, F.split_handle)
             /\ BranchArea(F.right) =
                    Rect(a.x, a.y + F.split_handle, a.width, a.height - F.split_handle)

\* ----------------------------------------------------------------- claims
\* C1: in every reachable state the children of every fork of a workspace
\* tree partition the fork's area along its orientation at its split, and a
\* single left child fills the whole area; also right after an attach into an
\* empty right slot and after a detach.
C1_Tiling == \A f \in TreeForks : Tiled(f)

\* C2: no fork of a workspace tree has a fork as its left child while its
\* right child is absent.
C2_Compressed ==
    \A f \in TreeForks : ~ (fork[f].left.kind = "Fork" /\ fork[f].right.kind = "None")

\* C3: the parent of a fork is None exactly when the fork is the root of a
\* workspace, and the parent of any other fork of a tree is the fork that
\* holds it as a child.
C3_Parents ==
    \A f \in TreeForks :
        /\ fork[f].parent = Nil <=> f \in RootForks
        /\ f \notin RootForks =>
              /\ fork[f].parent \in TreeForks
              /\ BranchFork(f) \in { fork[fork[f].parent].left, fork[fork[f].parent].right }

\* C4: the registry holds exactly the windows reachable from the workspace
\* roots.
C4_Registry == Registered = WindowsInTrees

\* C7: the split of every fork lies between 0 and the length of the fork's
\* area along its orientation.
C7_SplitInArea ==
    \A f \in TreeForks :
        /\ 0 <= fork[f].split_handle
        /\ fork[f].split_handle <= axis(fork[f].area, fork[f].orientation)

\* C9: no request aborts the process, whatever the order of the requests.
C9_NoAbort == abort = "none"

\* C5: every stack that is a branch of a fork has a member, its active
\* window is one of its members, and every member's rect is the stack's area.
C5_Stacks ==
    \A k \in TreeStacks :
        /\ stack[k].windows # << >>
        /\ stack[k].active \in Range(stack[k].windows)
        /\ \A w \in Range(stack[k].windows) : win[w].rect = stack[k].area

\* C6: a registered window is visible exactly when its workspace is the
\* active workspace and it is not a member of a stack other than the active one.
C6_Visibility ==
    \A w \in Registered :
        win[w].visible <=>
            /\ win[w].workspace = active_workspace
            /\ \A k \in TreeStacks :
                  w \in Range(stack[k].windows) => stack[k].active = w

\* C8: a window that is a Window branch of a fork or a member of a stack has
\* exactly one of its fork and stack references set, and a window has neither
\* set exactly when no tree holds it.
C8_OneParent ==
    \A w \in Objs :
        win[w].id # NoId =>
            /\ w \in WindowsInTrees => (win[w].fork # Nil) # (win[w].stack # Nil)
            /\ (win[w].fork = Nil /\ win[w].stack = Nil) <=> w \notin WindowsInTrees

\* The fork of the active window, the one Request::ToggleOrientation acts on
ActiveFork == IF active = Nil THEN Nil ELSE win[active].fork

\* The tiler after n consecutive ToggleOrientation requests
RECURSIVE Toggles(_)
Toggles(n) == IF n = 0 THEN State ELSE events(toggle_orientation(Toggles(n - 1)))

\* Fork f of tiler s has the orientation and the children, in order, of fork g of t
SameLayout(s, t, f) ==
    /\ s.fork[f].orientation = t.fork[f].orientation
    /\ s.fork[f].left = t.fork[f].left
    /\ s.fork[f].right = t.fork[f].right

\* The same, with the two children exchanged
ExchangedLayout(s, t, f) ==
    /\ s.fork[f].orientation = t.fork[f].orientation
    /\ s.fork[f].left = t.fork[f].right
    /\ s.fork[f].right = t.fork[f].left

\* The active window's fork has two children and a run of n toggles completes
CanToggle(n) ==
    /\ ActiveFork # Nil
    /\ fork[ActiveFork].right.kind # "None"
    /\ Toggles(n).abort = "none"

Settled(r) == [Collect(r) EXCEPT !.uf = FALSE]

\* Window id is the only window of tiler s: the registry holds nothing else and
\* it is the single child of the root fork of the only workspace with a tree
OnlyWindow(s, id) ==
    /\ s.windows[id] # Nil
    /\ \A j \in WinIds \ {id} : s.windows[j] = Nil
    /\ \E k \in WorkspaceIds :
          /\ s.workspaces[k].exists
          /\ s.workspaces[k].fork # Nil
          /\ s.fork[s.workspaces[k].fork].left = BranchWindow(s.windows[id])
          /\ s.fork[s.workspaces[k].fork].right = NoBranch
          /\ \A j \in WorkspaceIds \ {k} : s.workspaces[j].fork = Nil

\* Tiler t holds window id, registered and active, as the single child of a
\* workspace root fork that covers the area of the workspace's display
SingleRoot(t, id) ==
    /\ t.abort = "none"
    /\ t.windows[id] # Nil
    /\ t.active = t.windows[id]
    /\ \E k \in WorkspaceIds :
          /\ t.workspaces[k].exists
          /\ t.workspaces[k].fork # Nil
          /\ t.fork[t.workspaces[k].fork].left = BranchWindow(t.windows[id])
          /\ t.fork[t.workspaces[k].fork].right = NoBranch
          /\ t.fork[t.workspaces[k].fork].area = t.display[t.workspaces[k].parent].area

\* The tiler after Request::Detach(id) and then Request::Attach(id)
DetachAttach(id) ==
    events(request_attach(Settled(events(request_detach(State, id))), id))

\* C11 as stated: when w is the only window of the tiler, the single child of a
\* workspace root fork, Detach(w) followed by Attach(w) leaves a workspace
\* whose root fork has left = Window(w), no right child and the area of the
\* workspace's display, with w registered and active.
C11_DetachAttachRestores ==
    \A id \in WinIds : OnlyWindow(State, id) => SingleRoot(DetachAttach(id), id)


\* The lists Service::handle can answer Request::WorkspaceSwitch(k) with
SwitchResponses(k) == Responses(events(workspace_switch(State, k, MaxDepth)).drained)

\* C12 as stated: in every reachable state WorkspaceSwitch(K) with K already
\* the active workspace is answered with the empty event list; a
\* FocusWorkspace event of an earlier switch is not repeated by later drains.
C12_SwitchSameSilent == abort = "none" => SwitchResponses(active_workspace) = { << >> }


\* Event e places a window, a stack or a fork where it already is
Redundant(e) ==
    \/ /\ e.type = "WindowPlace"
       /\ windows[e.id] # Nil
       /\ e.placement.area = win[windows[e.id]].rect
    \/ /\ e.type = "StackPlace"
       /\ e.placement.area = stack[e.id].area
    \/ /\ e.type = "Fork"
       /\ e.update.rect = fork[e.id].area
       /\ e.update.handle = fork[e.id].split_handle
       /\ e.update.orientation = fork[e.id].orientation

\* The run t of a request left every fork, stack and window as it was and
\* answers with redundant placements at most
NoOp(t) ==
    /\ t.abort = "none"
    /\ t.fork = fork
    /\ t.stack = stack
    /\ t.win = win
    /\ \A r \in Responses(t.drained) : \A n \in 1 .. Len(r) : Redundant(r[n])

\* C13 as stated: Swap(a, a) for an attached window a changes no branch slot,
\* split, rect, stack membership or active member, and its drained events are
\* at most placements that repeat the rect the entity already had.
C13_SwapSelfNoOp ==
    \A id \in WinIds :
        (windows[id] # Nil /\ windows[id] \in WindowsInTrees)
            => NoOp(events(request_swap(State, id, id)))


\* ---------------------------------------------------------------- scenarios
\* The events of the scenarios
WindowPlace(id, r, workspace) ==
    [type |-> "WindowPlace", id |-> id, placement |-> Placement(r, workspace)]
Focus_event(id) == [type |-> "Focus", id |-> id]

\* Scenario S1 before its attach: display_update(0, (1,1,2560,1440)),
\* workspace_update(0, 0) and window((0,0)) on the default tiler
S1_Before == State = Booted(TreeRect, 1)

\* List r holds the Fork event of the root fork of workspace 0 with the
\* orientation and the split
HasRootFork(r, orientation, split) ==
    \E n \in 1 .. Len(r) :
        /\ r[n].type = "Fork"
        /\ r[n].id = workspaces[0].fork
        /\ r[n].update.orientation = orientation
        /\ r[n].update.handle = split

\* What S1 expects of the answer to the attach
S1_Expected ==
    \A r \in Responses(drained) :
        /\ Len(r) = 3
        /\ WindowPlace(0, TreeRect, 0) \in Range(r)
        /\ Focus_event(0) \in Range(r)
        /\ HasRootFork(r, "Horizontal", 1279)

\* C14 as stated: in scenario S1 the events drained after attaching window
\* (0,0) are one WindowPlace of (0,0) at (1,1,2560,1440) on workspace 0, a Fork
\* event of the root fork with orientation Horizontal and split 1279, and
\* Focus((0,0)).
C14_S1Events == [][(S1_Before /\ last' = "Attach") => S1_Expected']_vars


\* Scenario S2 before its attach, continuing S1: window (0,0) is active and the
\* only child of the root fork of workspace 0 on the (1,1,2560,1440) display,
\* window (0,1) is registered and not attached
S2_Before ==
    /\ abort = "none"
    /\ displays[0] # Nil
    /\ display[displays[0]].area = TreeRect
    /\ workspaces[0].exists
    /\ workspaces[0].fork # Nil
    /\ fork[workspaces[0].fork].area = TreeRect
    /\ fork[workspaces[0].fork].orientation = "Horizontal"
    /\ fork[workspaces[0].fork].split_handle = 1280
    /\ windows[0] # Nil
    /\ fork[workspaces[0].fork].left = BranchWindow(windows[0])
    /\ fork[workspaces[0].fork].right = NoBranch
    /\ win[windows[0]].rect = TreeRect
    /\ active = windows[0]
    /\ windows[1] # Nil
    /\ win[windows[1]].fork = Nil
    /\ win[windows[1]].stack = Nil

\* The attach of S2: Request::Attach of window (0,1) has run
S2_Attach == S2_Before /\ last' = "Attach" /\ abort' = "none" /\ win'[windows[1]].fork # Nil

S2_Left == Rect(1, 1, 1280, 1440)
S2_Right == Rect(1281, 1, 1280, 1440)

\* What S2 expects of the tree and of the answer
S2_Expected ==
    /\ fork[workspaces[0].fork].left = BranchWindow(windows[0])
    /\ fork[workspaces[0].fork].right = BranchWindow(windows[1])
    /\ fork[workspaces[0].fork].orientation = "Horizontal"
    /\ fork[workspaces[0].fork].split_handle = 1280
    /\ win[windows[0]].rect = S2_Left
    /\ win[windows[1]].rect = S2_Right
    /\ \A r \in Responses(drained) :
          /\ WindowPlace(0, S2_Left, 0) \in Range(r)
          /\ WindowPlace(1, S2_Right, 0) \in Range(r)

\* C15 as stated: in scenario S2 attaching window (0,1) makes the root fork
\* left = Window(0,0), right = Window(0,1), Horizontal with split 1280, the
\* drained events contain WindowPlace((0,0), (1,1,1280,1440)) and
\* WindowPlace((0,1), (1281,1,1280,1440)), and the two windows store these rects.
C15_S2Split == [][S2_Attach => S2_Expected']_vars

\* What S2 expects of the focus
S2_Focused ==
    /\ active = windows[1]
    /\ \A r \in Responses(drained) : Focus_event(1) \in Range(r)

\* C16 as stated: when window (0,1) is attached while window (0,0) is the
\* active window, (0,1) becomes the active window and the drained events
\* include Focus((0,1)).
C16_S2Focus == [][S2_Attach => S2_Focused']_vars


\* -------------------------------------------------------- workspace switch
\* A Request::WorkspaceSwitch to another, existing workspace has run
SwitchStep ==
    /\ abort = "none"
    /\ last' = "WorkspaceSwitch"
    /\ abort' = "none"
    /\ active_workspace' # active_workspace

\* After the step window o is a member of a stack, and its active member
StackedNext(o) == \E k \in StackIds : stack'[k].live /\ o \in Range(stack'[k].windows)
RaisedNext(o) ==
    \E k \in StackIds : stack'[k].live /\ o \in Range(stack'[k].windows) /\ stack'[k].active = o

\* The visible flag the spec gives window o after the step
ShownNext(o) ==
    IF win'[o].workspace # active_workspace' THEN FALSE
    ELSE IF StackedNext(o) THEN RaisedNext(o)
    ELSE TRUE

\* List r holds a WindowVisibility event of window id
HasVisibility(r, id) == \E n \in 1 .. Len(r) : r[n].type = "WindowVisibility" /\ r[n].id = id

\* A tiler with a second workspace on display 0 and two attached windows, the
\* first of them stacked or not, as a client sets it up with
\* Request::WorkspaceUpdate, Request::Attach and Request::ToggleStack
TwoWorkspaces(r, stacked) ==
    LET a == Settled(events(workspace_update(Booted(r, SwitchWindows), 1, 0)))
        b == Settled(events(request_attach(a, 0)))
        c == Settled(events(request_attach(b, 1)))
    IN  IF stacked THEN Settled(events(tiler_stack_toggle(c))) ELSE c

InitSwitch ==
    /\ \E stacked \in BOOLEAN : Holds(TwoWorkspaces(TreeRect, stacked))
    /\ last = "Attach"
    /\ steps = StepsSwitch
    /\ thread = TilerThread_default

\* Switching between the workspaces while windows are attached, focused and stacked
NextSwitch ==
    \/ \E k \in WorkspaceIds : WorkspaceSwitch(k)
    \/ \E id \in WinIds : Attach(id)
    \/ \E id \in WinIds : Focus(id)
    \/ \E dir \in Directions : FocusIn(dir)
    \/ \E a, b \in WinIds : Swap(a, b)
    \/ ToggleStack

SpecSwitch == InitSwitch /\ [][NextSwitch]_vars

\* C17 as stated: after WorkspaceSwitch(K) to an existing workspace K other
\* than the current one every registered window of another workspace is
\* hidden, every window of K outside a stack is visible, a window of K inside a
\* stack is visible iff it is the stack's active member, and a
\* WindowVisibility event is emitted for a window iff its visible flag changed.
C17_SwitchVisibility ==
    [][SwitchStep =>
         \A i \in WinIds :
            windows[i] # Nil =>
               /\ win'[windows[i]].visible = ShownNext(windows[i])
               /\ \A r \in Responses(drained') :
                     HasVisibility(r, i) <=> (win'[windows[i]].visible # win[windows[i]].visible)]_vars


\* ------------------------------------------------------- order of a drain
\* The group of an event in the order of a drain
Group(e) ==
    CASE e.type \in {"ForkDestroy", "Fork"} -> 1
      [] e.type \in {"StackDestroy", "StackPlace", "StackVisibility",
                     "StackAssign", "StackDetach"} -> 2
      [] e.type \in {"WindowPlace", "WindowVisibility"} -> 3
      [] e.type = "StackMovement" -> 4
      [] e.type = "FocusWorkspace" -> 5
      [] e.type = "Focus" -> 6

\* The place of an event among the events of its stack or window
Part(e) ==
    CASE e.type \in {"StackDestroy", "StackPlace", "WindowPlace"} -> 1
      [] e.type \in {"StackVisibility", "WindowVisibility"} -> 2
      [] OTHER -> 3

\* List r is in the order of a drain
Ordered(r) ==
    \A m, n \in 1 .. Len(r) :
       m < n =>
          /\ Group(r[m]) <= Group(r[n])
          /\ (Group(r[m]) \in {2, 3} /\ Group(r[n]) = Group(r[m]) /\ r[m].id = r[n].id)
                => Part(r[m]) <= Part(r[n])

IsMovement(e) == e.type = "StackMovement"

\* C18: the events drained after a request are in the fixed order: the fork
\* events, then the stack events (for each stack its place, then its
\* visibility, then its StackAssign and StackDetach events), then the window
\* events (for each window WindowPlace before WindowVisibility), then the
\* StackMovement events in the order they were queued, then FocusWorkspace,
\* then Focus; no event of a later group precedes one of an earlier group.
C18_DrainOrder ==
    abort = "none" =>
       \A r \in Responses(drained) :
          /\ Ordered(r)
          /\ SelectSeq(r, IsMovement) = drained.queue.events

\* C18 witness: one drain holds an event of a fork, an event of a stack and an
\* event of a window
C18_Witness ==
    /\ abort = "none"
    /\ \E r \in Responses(drained) :
          /\ \E n \in 1 .. Len(r) : Group(r[n]) = 1
          /\ \E n \in 1 .. Len(r) : Group(r[n]) = 2
          /\ \E n \in 1 .. Len(r) : Group(r[n]) = 3


\* ------------------------------------------------- destroyed forks and stacks
\* The queue after one call of a method of EventQueue; the tiler is untouched
Queued(c, name) ==
    /\ abort = "none"
    /\ steps > 0
    /\ c.event_queue # event_queue
    /\ event_queue' = c.event_queue
    /\ last' = name
    /\ steps' = steps - 1
    /\ UNCHANGED << win, fork, stack, display, windows, forks, displays, workspaces,
                    active, active_changed, active_workspace, active_workspace_changed,
                    drained, thread, abort >>

ForkDestroy(f) == f \in forks /\ Queued(queue_fork_destroy(State, f), "fork_destroy")

ForkUpdated(f) == f \in forks /\ Queued(queue_fork_update(State, f), "fork_update")

StackAssign(k, id) ==
    /\ stack[k].live
    /\ windows[id] # Nil
    /\ Queued(queue_stack_assign(State, k, windows[id]), "stack_assign")

StackDetach(k, id) ==
    /\ stack[k].live
    /\ windows[id] # Nil
    /\ Queued(queue_stack_detach(State, k, windows[id]), "stack_detach")

StackDestroy(k) == stack[k].live /\ Queued(queue_stack_destroy(State, k), "stack_destroy")

StackRaise(k, id) ==
    /\ stack[k].live
    /\ windows[id] # Nil
    /\ Queued(queue_stack_raise_window(State, k, windows[id]), "stack_raise_window")

StackUpdated(k) == stack[k].live /\ Queued(queue_stack_update(State, k), "stack_update")

\* Tiler::events
Drain == Becomes(events(State), "events")

\* The queue of a tiler with one fork and one stack
InitQueue ==
    /\ Holds(TwoWorkspaces(TreeRect, TRUE))
    /\ last = "ToggleStack"
    /\ steps = StepsQueue
    /\ thread = TilerThread_default

\* The methods of EventQueue in any order, and the drain
NextQueue ==
    \/ \E f \in ForkIds : ForkDestroy(f)
    \/ \E f \in ForkIds : ForkUpdated(f)
    \/ \E k \in StackIds, id \in WinIds : StackAssign(k, id)
    \/ \E k \in StackIds, id \in WinIds : StackDetach(k, id)
    \/ \E k \in StackIds : StackDestroy(k)
    \/ \E k \in StackIds, id \in WinIds : StackRaise(k, id)
    \/ \E k \in StackIds : StackUpdated(k)
    \/ Drain

SpecQueue == InitQueue /\ [][NextQueue]_vars

\* The events of list r that belong to group g and name the fork or stack id
EventsOf(r, g, id) == SelectSeq(r, LAMBDA e : Group(e) = g /\ e.id = id)

\* The types of the events of list r
Types(r) == { r[n].type : n \in 1 .. Len(r) }

\* C19: in one drain a fork marked destroyed yields ForkDestroy and no Fork
\* update; a stack marked destroyed yields StackDestroy and its queued
\* StackAssign and StackDetach events, and no StackPlace, StackVisibility or
\* StackRaise; every StackDetach queued for the destroyed stack is in the drain.
C19_DestroySuppresses ==
    abort = "none" =>
       \A r \in Responses(drained) :
          /\ \A f \in ForkIds :
                drained.queue.forks[f].destroy =>
                   EventsOf(r, 1, f) = << [type |-> "ForkDestroy", id |-> f] >>
          /\ \A k \in StackIds :
                drained.queue.stacks[k].destroy =>
                   /\ Types(EventsOf(r, 2, k)) \subseteq {"StackDestroy", "StackAssign", "StackDetach"}
                   /\ Len(SelectSeq(EventsOf(r, 2, k), LAMBDA e : e.type = "StackDestroy")) = 1
                   /\ \A i \in WinIds :
                         /\ drained.queue.stacks[k].assignments[i] = Some(FALSE)
                               => \E n \in 1 .. Len(r) :
                                     r[n] = [type |-> "StackDetach", id |-> k, window |-> i]
                         /\ drained.queue.stacks[k].assignments[i] = Some(TRUE)
                               => \E n \in 1 .. Len(r) :
                                     r[n] = [type |-> "StackAssign", id |-> k, window |-> i]
          /\ "StackRaise" \notin Types(r)

\* C19 witness: the drained queue held a destroyed stack with a placement and
\* a StackDetach queued, and a destroyed fork with an update queued
C19_Witness ==
    /\ abort = "none"
    /\ last = "events"
    /\ \E k \in StackIds :
          /\ drained.queue.stacks[k].destroy
          /\ drained.queue.stacks[k].place # None
          /\ \E i \in WinIds : drained.queue.stacks[k].assignments[i] = Some(FALSE)
    /\ \E f \in ForkIds : drained.queue.forks[f].destroy /\ drained.queue.forks[f].update # None


\* --------------------------------------------------------- unknown names
\* The run t of a request did not abort and left the trees, the registries,
\* the active window, the active workspace and the displays as they were
Untouched(t) ==
    /\ t.abort = "none"
    /\ t.win = win
    /\ t.fork = fork
    /\ t.stack = stack
    /\ t.display = display
    /\ t.windows = windows
    /\ t.forks = forks
    /\ t.displays = displays
    /\ t.workspaces = workspaces
    /\ t.active = active
    /\ t.active_workspace = active_workspace

\* C20 as stated: in every reachable state Attach, Detach, Focus and Swap with
\* a window id that is not registered, DisplayDetach of an unknown display and
\* WorkspaceUpdate onto an unknown display leave the tiler unchanged and do
\* not abort.
C20_UnknownNoOp ==
    abort = "none" =>
       /\ \A id \in WinIds :
             windows[id] = Nil =>
                /\ Untouched(events(request_attach(State, id)))
                /\ Untouched(events(request_detach(State, id)))
                /\ Untouched(events(request_focus(State, id)))
                /\ \A other \in WinIds :
                      /\ Untouched(events(request_swap(State, id, other)))
                      /\ Untouched(events(request_swap(State, other, id)))
       /\ \A d \in DisplayIds :
             displays[d] = Nil =>
                /\ Untouched(events(display_detach(State, d)))
                /\ \A k \in WorkspaceIds : Untouched(events(workspace_update(State, k, d)))


\* --------------------------------------------------------------- TilerThread
\* The tiler variables that a step of a caller leaves alone
tiler_vars == << win, fork, stack, display, windows, forks, displays, workspaces, active,
                 active_changed, active_workspace, active_workspace_changed, event_queue,
                 drained, abort, last, steps >>

\* The requests a caller sends
ThreadRequests ==
    { [type |-> "DisplayUpdate", id |-> 0, rect |-> r] : r \in DisplayRects }
    \cup { [type |-> "WorkspaceUpdate", workspace |-> k, display |-> 0] : k \in WorkspaceIds }
    \cup { [type |-> "WorkspaceSwitch", workspace |-> k] : k \in WorkspaceIds }

\* ClientThread::handle, first await: the request of a caller that has no
\* call in flight enters the request channel
Send(c, request) ==
    /\ thread.caller[c].pc \in {"idle", "done"}
    /\ abort = "none"
    /\ thread' = [thread EXCEPT !.requests = Append(@, [of |-> c, request |-> request]),
                                !.caller[c].pc = "sent"]
    /\ UNCHANGED tiler_vars

\* ClientThread::handle, second await: the caller takes the response at the
\* head of the response channel
Recv(c) ==
    /\ thread.caller[c].pc = "sent"
    /\ thread.responses # << >>
    /\ thread' = [thread EXCEPT !.responses = Tail(@),
                                !.caller[c] = [pc |-> "done", got |-> << Head(thread.responses) >>]]
    /\ UNCHANGED tiler_vars

\* ClientThread::handle returning Err: the worker has panicked, its ends of the
\* channels are dropped and nothing is left to receive
Fails(c) ==
    /\ abort # "none"
    /\ \/ thread.caller[c].pc = "idle"
       \/ thread.caller[c].pc = "sent" /\ thread.responses = << >>
    /\ thread' = [thread EXCEPT !.caller[c].pc = "failed"]
    /\ UNCHANGED tiler_vars

\* ServiceThread::run, one turn of the loop: the request m at the head of the
\* request channel is handled, run r of Service::handle, and its events are
\* sent as one response
Serves(m, r) ==
    /\ \/ Handles(r, m.request.type)
       \/ /\ abort = "none"
          /\ steps > 0
          /\ r.abort = "none"
          /\ ~ r.uf
          /\ Settled(r) = State
          /\ drained' = r.drained
          /\ last' = m.request.type
          /\ steps' = steps - 1
          /\ UNCHANGED << win, fork, stack, display, windows, forks, displays, workspaces,
                          active, active_changed, active_workspace,
                          active_workspace_changed, event_queue, abort >>
    /\ thread' = [thread EXCEPT !.requests = Tail(@),
                                !.responses = IF abort' = "none"
                                              THEN Append(@, [of |-> m.of, events |-> drained'])
                                              ELSE @]

ServeDisplayUpdate ==
    /\ thread.requests # << >>
    /\ Head(thread.requests).request.type = "DisplayUpdate"
    /\ Serves(Head(thread.requests),
              events(display_update(State, Head(thread.requests).request.id,
                                    Head(thread.requests).request.rect)))

ServeWorkspaceUpdate ==
    /\ thread.requests # << >>
    /\ Head(thread.requests).request.type = "WorkspaceUpdate"
    /\ Serves(Head(thread.requests),
              events(workspace_update(State, Head(thread.requests).request.workspace,
                                      Head(thread.requests).request.display)))

ServeWorkspaceSwitch ==
    /\ thread.requests # << >>
    /\ Head(thread.requests).request.type = "WorkspaceSwitch"
    /\ Serves(Head(thread.requests),
              events(workspace_switch(State, Head(thread.requests).request.workspace, MaxDepth)))

\* TilerThread::default: the worker owns a new Service
InitThread ==
    /\ Holds(Default)
    /\ thread = TilerThread_default
    /\ last = "Init"
    /\ steps = StepsThread

\* Callers of TilerThread::handle on one TilerThread, and its worker
NextThread ==
    \/ \E c \in Callers, request \in ThreadRequests : Send(c, request)
    \/ \E c \in Callers : Recv(c)
    \/ \E c \in Callers : Fails(c)
    \/ ServeDisplayUpdate
    \/ ServeWorkspaceUpdate
    \/ ServeWorkspaceSwitch

SpecThread == InitThread /\ [][NextThread]_vars

\* C21 as stated: every caller of TilerThread::handle receives the response
\* to its own request, also when several calls are in flight on the same
\* TilerThread; the worker answers the requests one at a time in the order
\* they were sent, one response for each.
C21_OwnResponse ==
    \A c \in Callers :
       thread.caller[c].pc = "done" => thread.caller[c].got[1].of = c


\* -------------------------------------------------------------- root areas
\* C22 as stated: in every reachable state the area of the root fork of each
\* workspace equals the area of the display the workspace is assigned to,
\* also after display_update, after WorkspaceUpdate moved the workspace to
\* another display and after DisplayDetach migrated it.
C22_RootArea ==
    abort = "none" =>
       \A k \in WorkspaceIds :
          (workspaces[k].exists /\ workspaces[k].fork # Nil /\ workspaces[k].parent # Nil)
             => fork[workspaces[k].fork].area = display[workspaces[k].parent].area


\* ------------------------------------------------------------------ stacks
\* A tiler whose workspace holds one stack of three windows, the window with
\* id focus focused, and a fourth window registered, as a client sets it up
\* with Request::Attach, Request::ToggleStack and Request::Focus
Stacked(r, focus) ==
    LET a == Settled(events(request_attach(Booted(r, StackWindows), 0)))
        b == Settled(events(tiler_stack_toggle(a)))
        c == Settled(events(request_attach(b, 1)))
        d == Settled(events(request_attach(c, 2)))
    IN  Settled(events(request_focus(d, focus)))

InitStack ==
    /\ \E focus \in 0 .. 2 : Holds(Stacked(TreeRect, focus))
    /\ last = "Focus"
    /\ steps = StepsStack
    /\ thread = TilerThread_default

\* Requests on a workspace with a stack
NextStack ==
    \/ \E id \in WinIds : Attach(id)
    \/ \E id \in WinIds : Detach(id)
    \/ \E id \in WinIds : Focus(id)
    \/ \E dir \in Directions : FocusIn(dir)
    \/ \E dir \in Directions : Move(dir)
    \/ ToggleStack

SpecStack == InitStack /\ [][NextStack]_vars


\* The step is a Request::Detach of the window id, which was a member of
\* stack k of two or more windows and referred to it
StackDetachStep(id, k) ==
    /\ abort = "none"
    /\ windows[id] # Nil
    /\ stack[k].live
    /\ win[windows[id]].stack = k
    /\ windows[id] \in Range(stack[k].windows)
    /\ Len(stack[k].windows) >= 2
    /\ last' = "Detach"
    /\ abort' = "none"
    /\ windows'[id] = Nil

\* The sequence ws without its element at index i
Without(ws, i) == [j \in 1 .. (Len(ws) - 1) |-> IF j < i THEN ws[j] ELSE ws[j + 1]]

\* C23: Stack.detach(w) on a stack of two or more members removes exactly w
\* and keeps the order of the others; when w was the active member at index i
\* the member now at index i becomes active, or the one at index i-1 when
\* there is none; otherwise the active member is unchanged.
C23_StackDetach ==
    [][\A id \in WinIds, k \in StackIds :
          StackDetachStep(id, k) =>
             LET ws == stack[k].windows
                 w == windows[id]
                 i == Position(ws, w)
             IN  /\ stack'[k].live
                 /\ stack'[k].windows = Without(ws, i)
                 /\ stack'[k].active =
                       IF stack[k].active # w THEN stack[k].active
                       ELSE IF i < Len(ws) THEN ws[i + 1]
                       ELSE ws[i - 1]]_vars

\* C23 witness: the active member of a stack was detached and the stack, which
\* still has two members, raised another one
C23_Witness ==
    /\ last = "Detach"
    /\ abort = "none"
    /\ \E k \in StackIds :
          /\ stack[k].live
          /\ Len(stack[k].windows) >= 2
          /\ drained.queue.stacks[k].raise # None
          /\ \E i \in WinIds : drained.queue.stacks[k].assignments[i] = Some(FALSE)


\* No fork of the tiler t has stack k as a branch
Unbranched(t, k) ==
    \A f \in ForkIds :
       t.fork[f].live =>
          /\ ~ (t.fork[f].left.kind = "Stack" /\ t.fork[f].left.ptr = k)
          /\ ~ (t.fork[f].right.kind = "Stack" /\ t.fork[f].right.ptr = k)

\* C24 as stated: Stack.detach never computes pos - 1 with pos = 0; detaching
\* the sole member of a stack destroys the stack and clears its branch in the
\* parent fork without an arithmetic underflow.
C24_SoleMemberDetach ==
    abort = "none" =>
       \A k \in StackIds :
          (stack[k].live /\ Len(stack[k].windows) = 1) =>
             /\ ~ stack_detach(State, k, stack[k].windows[1]).uf
             /\ stack_detach(State, k, stack[k].windows[1]).abort = "none"
             /\ stack_detach(State, k, stack[k].windows[1]).event_queue.stacks[k].destroy
             /\ Unbranched(stack_detach(State, k, stack[k].windows[1]), k)


\* C25 as stated: when the active member of a stack with two or more members
\* is detached, the events drained for the request hold a StackDetach of the
\* removed window and a StackRaise naming the member that became active.
C25_DetachRaises ==
    [][\A id \in WinIds, k \in StackIds :
          (StackDetachStep(id, k) /\ stack[k].active = windows[id]) =>
             \A r \in Responses(drained') :
                /\ \E n \in 1 .. Len(r) :
                      r[n] = [type |-> "StackDetach", id |-> k, window |-> id]
                /\ \E n \in 1 .. Len(r) :
                      /\ r[n].type = "StackRaise"
                      /\ r[n].id = k
                      /\ r[n].window = win'[stack'[k].active].id]_vars


\* C26 as stated: after Detach(w) of the active window w, a Window branch of
\* a fork or a member of a stack, the tiler has no active window and the drain
\* of the request holds no Focus event; the active window is never a window
\* that was detached and removed from the registry.
C26_DetachClearsActive ==
    [][\A id \in WinIds :
          (/\ abort = "none"
           /\ windows[id] # Nil
           /\ active = windows[id]
           /\ last' = "Detach"
           /\ abort' = "none"
           /\ windows'[id] = Nil)
             => /\ active' = Nil
                /\ drained'.focus = None]_vars


\* Whether Request::FocusAbove/Below/Left/Right in direction dir reaches
\* Tiler::window_in_direction in the tiler s: always for Above and Below, for
\* Left and Right when the stack of the active window yields no neighbour
Searches(s, dir) ==
    /\ s.active # Nil
    /\ \/ dir \in {"Above", "Below"}
       \/ s.win[s.active].stack = Nil
       \/ (dir = "Left" /\ select_left(s, s.win[s.active].stack) = Nil)
       \/ (dir = "Right" /\ select_right(s, s.win[s.active].stack) = Nil)

\* The rect b lies strictly on the side dir of the rect a, by origin
StrictlyBeyond(dir, a, b) ==
    IF dir = "Above" THEN b.y < a.y
    ELSE IF dir = "Below" THEN b.y > a.y
    ELSE IF dir = "Left" THEN b.x < a.x
    ELSE b.x > a.x

\* C27 as stated: a window picked by the geometric search of a directional
\* focus from the active window W is in W's workspace, is not W, is not a
\* member of W's stack, and lies strictly on the requested side of W by
\* origin coordinate (never at the same y for Above/Below or the same x for
\* Left/Right).
C27_PickedOnSide ==
    abort = "none" =>
       \A dir \in Directions :
          (Searches(State, dir) /\ window_in_direction(State, dir).found # Nil) =>
             LET w == window_in_direction(State, dir).found
             IN  /\ win[w].workspace = win[active].workspace
                 /\ w # active
                 /\ win[active].stack # Nil =>
                       /\ win[w].stack # win[active].stack
                       /\ \A n \in 1 .. Len(stack[win[active].stack].windows) :
                             stack[win[active].stack].windows[n] # w
                 /\ StrictlyBeyond(dir, win[active].rect, win[w].rect)


\* The windows Tiler::window_in_direction keeps as candidates in direction dir
Candidates(s, dir) ==
    { s.windows[i] : i \in { j \in WinIds :
         /\ s.windows[j] # Nil
         /\ s.win[s.windows[j]].workspace = s.win[s.active].workspace
         /\ s.windows[j] # s.active
         /\ ~ (s.win[s.active].stack # Nil
               /\ s.win[s.windows[j]].stack = s.win[s.active].stack)
         /\ ~ filter(dir, s.win[s.active].rect, s.win[s.windows[j]].rect) } }

\* The squared distance between the cardinal midpoints named for direction
\* dir: A.north and B.south upward, A.south and B.north downward, A.west and
\* B.east westward, A.east and B.west eastward
CardinalDistance2(dir, a, b) ==
    IF dir = "Above" THEN distance2(north(a), south(b))
    ELSE IF dir = "Below" THEN distance2(south(a), north(b))
    ELSE IF dir = "Left" THEN distance2(west(a), east(b))
    ELSE distance2(east(a), west(b))

\* C28 as stated: the window picked by a directional focus minimises, among
\* the candidates that pass the directional filter, the squared Euclidean
\* distance between the cardinal midpoints of the active rect and of the
\* candidate rect (south to north downward, north to south upward, east to
\* west eastward, west to east westward), and no unsigned coordinate
\* difference wraps in the computation.
C28_NearestPicked ==
    abort = "none" =>
       \A dir \in Directions :
          (Searches(State, dir) /\ Candidates(State, dir) # {}) =>
             /\ ~ window_in_direction(State, dir).panics
             /\ window_in_direction(State, dir).found \in Candidates(State, dir)
             /\ \A c \in Candidates(State, dir) :
                   CardinalDistance2(dir, win[active].rect,
                                     win[window_in_direction(State, dir).found].rect)
                      <= CardinalDistance2(dir, win[active].rect, win[c].rect)


\* The step is a Request::FocusAbove/Below/Left/Right in direction dir that
\* was answered, with an active window
FocusStep(dir) ==
    /\ abort = "none"
    /\ active # Nil
    /\ last' = "FocusIn"
    /\ focus_in(State, dir).abort = "none"
    /\ Leaves(Settled(events(focus_in(State, dir))))

\* The member before (Left) or after (Right) the active member of stack k
Neighbour(dir, k) == IF dir = "Left" THEN select_left(State, k) ELSE select_right(State, k)

MoveFromStackStep(dir, k, f) ==
    /\ abort = "none"
    /\ active # Nil
    /\ win[active].stack = k
    /\ win[active].fork = f
    /\ stack[k].live
    /\ Len(stack[k].windows) >= 2
    /\ active \in Range(stack[k].windows)
    /\ branch(State, f, "Stack", k) # "None"
    /\ dir \in {"Left", "Right"} =>
          ~ (IF dir = "Left" THEN stack_move_left(State, k) ELSE stack_move_right(State, k)).moved
    /\ last' = "Move"
    /\ move_in(State, dir).abort = "none"
    /\ Leaves(Settled(events(move_in(State, dir))))

\* How many times window w occurs in the sequence ws
Occurrences(ws, w) == Cardinality({ n \in 1 .. Len(ws) : ws[n] = w })

\* C30 as stated: after a Move in a direction with the active window W in a
\* stack of two or more members, W is no longer in the member list, W's stack
\* reference is cleared, the former slot of the stack holds a fresh fork whose
\* branches are the stack and Window(W) (stack on the left for Below/Right, on
\* the right for Above/Left; Vertical for Above/Below, Horizontal for
\* Left/Right), and W occurs exactly once among the leaves enumerated from
\* the workspace root.
C30_MoveExtracts ==
    [][\A dir \in Directions, k \in StackIds, f \in ForkIds :
          MoveFromStackStep(dir, k, f) =>
             LET slot == branch(State, f, "Stack", k)
                 now == IF slot = "Left" THEN fork'[f].left ELSE fork'[f].right
                 root == workspaces'[win[active].workspace].fork
                 next == [State EXCEPT !.win = win', !.fork = fork', !.stack = stack']
             IN  /\ active \notin Range(stack'[k].windows)
                 /\ win'[active].stack = Nil
                 /\ now.kind = "Fork"
                 /\ ~ fork[now.ptr].live
                 /\ fork'[now.ptr].left =
                       (IF dir \in {"Below", "Right"} THEN BranchStack(k) ELSE BranchWindow(active))
                 /\ fork'[now.ptr].right =
                       (IF dir \in {"Below", "Right"} THEN BranchWindow(active) ELSE BranchStack(k))
                 /\ fork'[now.ptr].orientation =
                       (IF dir \in {"Above", "Below"} THEN "Vertical" ELSE "Horizontal")
                 /\ root # Nil
                 /\ Occurrences(fork_windows(next, root, MaxDepth).ws, active) = 1]_vars


\* The step is a Request::MoveAbove/Below/Left/Right in direction dir whose
\* search from the unstacked active window found the window x in another
\* fork, and that was answered
MoveAcrossStep(dir, x) ==
    /\ abort = "none"
    /\ active # Nil
    /\ win[active].stack = Nil
    /\ win[active].fork # Nil
    /\ window_in_direction(State, dir).found = x
    /\ x # Nil
    /\ win[x].fork # Nil
    /\ win[x].fork # win[active].fork
    /\ last' = "Move"
    /\ move_in(State, dir).abort = "none"
    /\ Leaves(Settled(events(move_in(State, dir))))

\* C31 as stated: a Move that finds a nearest window X in another fork than
\* the active window W keeps the set of registered windows and the active
\* window: afterwards W is registered, W is active, and W and X are the two
\* children of a new fork that occupies X's former slot.
C31_MoveKeepsWindow ==
    [][\A dir \in Directions, x \in Objs :
          MoveAcrossStep(dir, x) =>
             /\ windows' = windows
             /\ active' = active
             /\ \E nf \in ForkIds :
                   /\ ~ fork[nf].live
                   /\ fork'[nf].live
                   /\ {fork'[nf].left, fork'[nf].right} = {BranchWindow(active), BranchWindow(x)}
                   /\ win'[active].fork = nf
                   /\ win'[x].fork = nf
                   /\ fork'[win[x].fork].live =>
                         BranchFork(nf) \in {fork'[win[x].fork].left, fork'[win[x].fork].right}]_vars


\* The step is a Request::Swap(a, b) of two distinct registered windows that
\* are attached, and it was answered
SwapStep(a, b) ==
    /\ abort = "none"
    /\ a # b
    /\ windows[a] # Nil
    /\ windows[b] # Nil
    /\ win[windows[a]].fork # Nil
    /\ win[windows[b]].fork # Nil
    /\ last' = "Swap"
    /\ request_swap(State, a, b).abort = "none"
    /\ Leaves(Settled(events(request_swap(State, a, b))))

\* The window cell that takes the place of cell w when v and u trade places
Traded(w, v, u) == IF w = v THEN u ELSE IF w = u THEN v ELSE w

\* The branch c with the windows v and u trading places
TradedBranch(c, v, u) == IF c.kind = "Window" THEN BranchWindow(Traded(c.ptr, v, u)) ELSE c

\* C32 as stated: after Swap(a, b) of two distinct attached windows a holds
\* the fork branch slot or stack index b held and b holds a's, also when they
\* are the two children of one fork; the fork and stack objects are the same,
\* and the parent references and the workspace of each window name the node
\* that now holds it.
C32_SwapExchanges ==
    [][\A a, b \in WinIds :
          SwapStep(a, b) =>
             /\ \A f \in ForkIds :
                   fork[f].live =>
                      /\ fork'[f].live
                      /\ fork'[f].left = TradedBranch(fork[f].left, windows[a], windows[b])
                      /\ fork'[f].right = TradedBranch(fork[f].right, windows[a], windows[b])
             /\ \A k \in StackIds :
                   stack[k].live =>
                      /\ stack'[k].live
                      /\ stack'[k].windows =
                            [n \in 1 .. Len(stack[k].windows) |->
                                Traded(stack[k].windows[n], windows[a], windows[b])]
             /\ win'[windows[a]].fork = win[windows[b]].fork
             /\ win'[windows[a]].stack = win[windows[b]].stack
             /\ win'[windows[a]].workspace = win[windows[b]].workspace
             /\ win'[windows[b]].fork = win[windows[a]].fork
             /\ win'[windows[b]].stack = win[windows[a]].stack
             /\ win'[windows[b]].workspace = win[windows[a]].workspace]_vars


\* The slot of fork f in which tiler s holds the reference (kind, ptr)
Slot(s, f, kind, ptr) == branch(s, f, kind, ptr)

\* The branch that slot holds in fork f after the step
HeldNext(f, slot) == IF slot = "Left" THEN fork'[f].left ELSE fork'[f].right

\* C33 as stated: ToggleStack on an unstacked active window w replaces w's
\* slot in its parent fork by a new Stack with members [w], active w and the
\* area of w's rect, and emits StackPlace and StackAssign for it; a second
\* ToggleStack, w being the only member, puts Window(w) back into that slot
\* and destroys the stack, and w is still reachable from the workspace root
\* with the same rect.
C33_ToggleStackTwice ==
    [][(/\ abort = "none"
        /\ last' = "ToggleStack"
        /\ active # Nil
        /\ win[active].fork # Nil)
          => LET w == active
                 f == win[w].fork
                 k == win[w].stack
             IN  /\ (k = Nil /\ Slot(State, f, "Window", w) # "None") =>
                       /\ abort' = "none"
                       /\ HeldNext(f, Slot(State, f, "Window", w)).kind = "Stack"
                       /\ LET n == HeldNext(f, Slot(State, f, "Window", w)).ptr
                          IN  /\ stack'[n].live
                              /\ stack'[n].windows = << w >>
                              /\ stack'[n].active = w
                              /\ stack'[n].area = win[w].rect
                              /\ drained'.queue.stacks[n].place # None
                              /\ drained'.queue.stacks[n].assignments[win[w].id] = Some(TRUE)
                 /\ (/\ k # Nil
                     /\ stack[k].live
                     /\ stack[k].windows = << w >>
                     /\ Slot(State, f, "Stack", k) # "None") =>
                       /\ abort' = "none"
                       /\ fork'[f].live
                       /\ HeldNext(f, Slot(State, f, "Stack", k)) = BranchWindow(w)
                       /\ drained'.queue.stacks[k].destroy
                       /\ win'[w].rect = win[w].rect
                       /\ workspaces'[win[w].workspace].fork # Nil
                       /\ w \in Range(fork_windows(
                                        [State EXCEPT !.win = win', !.fork = fork', !.stack = stack'],
                                        workspaces'[win[w].workspace].fork, MaxDepth).ws)]_vars


\* The step is a Request::Resize(f, split) of the registered fork f that was
\* answered
ResizeStep(f, split) ==
    /\ abort = "none"
    /\ f \in forks
    /\ last' = "Resize"
    /\ fork_resize(State, f, split).abort = "none"
    /\ Leaves(Settled(events(fork_resize(State, f, split))))

\* C34 as stated: after Resize(handle, s) on a live fork F the split of F is
\* exactly min(s, length of F.area along F's orientation), the left child has
\* that length along the axis, and the Fork event drained for F carries that
\* split; a Resize whose handle names no live fork changes nothing.
C34_ResizeExact ==
    [][/\ \A f \in ForkIds, split \in ResizeSplits :
             ResizeStep(f, split) =>
                LET to == Min(split, axis(fork[f].area, fork[f].orientation))
                IN  /\ fork'[f].split_handle = to
                    /\ fork'[f].right.kind = "Window" =>
                          axis(win'[fork'[f].left.ptr].rect, fork'[f].orientation) = to
                             \/ fork'[f].left.kind # "Window"
                    /\ drained'.queue.forks[f].update =
                          Some(ForkUpdate(fork'[f].workspace, fork'[f].orientation,
                                          fork'[f].area, to))
       /\ \A f \in ForkIds \ forks, split \in ResizeSplits :
             abort = "none" => fork_resize(State, f, split) = State]_vars


\* C35 as stated: work_area_update(area) on a fork sets the split to
\* area.axis * old_split / old_area.axis in integer division; with the area
\* unchanged (work_area_refresh) the split of the fork and the rect of every
\* window stay as they were, so refreshes never make a split drift.
C35_SplitProportional ==
    abort = "none" =>
       \A f \in forks :
          (fork[f].live /\ axis(fork[f].area, fork[f].orientation) > 0) =>
             /\ \A r \in DisplayRects :
                   fork_work_area_update(State, f, r, MaxDepth).abort = "none" =>
                      fork_work_area_update(State, f, r, MaxDepth).fork[f].split_handle
                         = (axis(r, fork[f].orientation) * fork[f].split_handle)
                              \div axis(fork[f].area, fork[f].orientation)
             /\ fork_work_area_refresh(State, f).abort = "none" =>
                   /\ fork_work_area_refresh(State, f).fork[f].split_handle = fork[f].split_handle
                   /\ \A w \in Range(fork_windows(State, f, MaxDepth).ws) :
                         fork_work_area_refresh(State, f).win[w].rect = win[w].rect


\* The step is a Request::Focus(id) of a registered, attached window that
\* was not the active window, and it was answered
FocusStepOf(id) ==
    /\ abort = "none"
    /\ windows[id] # Nil
    /\ win[windows[id]].fork # Nil
    /\ active # windows[id]
    /\ last' = "Focus"
    /\ request_focus(State, id).abort = "none"
    /\ Leaves(Settled(events(request_focus(State, id))))

\* C36 as stated: after Focus(w) of an attached window w that was not active
\* the active window is w and the active workspace is w's workspace; when
\* that differs from the previous active workspace the switch does not
\* replace w by the workspace's remembered focus window, and the drain ends
\* with FocusWorkspace(w's workspace) followed by Focus(w).
C36_FocusSetsActive ==
    [][\A id \in WinIds :
          FocusStepOf(id) =>
             /\ active' = windows[id]
             /\ active_workspace' = win[windows[id]].workspace
             /\ drained'.focus = Some([type |-> "Focus", id |-> id])
             /\ active_workspace # win[windows[id]].workspace =>
                   drained'.workspace_switch =
                      Some([type |-> "FocusWorkspace",
                            workspace |-> win[windows[id]].workspace])]_vars


\* C37 as stated: after DisplayDetach(d) of an existing display d, d is no
\* longer in the display map and every workspace that was on d is listed
\* under, and has as parent, the display of the active workspace, which is
\* still in the display map, also when d is the display of the active
\* workspace; every workspace's parent display is then a registered display.
C37_DetachMigrates ==
    [][\A id \in DisplayIds :
          (/\ abort = "none"
           /\ displays[id] # Nil
           /\ last' = "DisplayDetach"
           /\ abort' = "none"
           /\ displays'[id] = Nil)
             => /\ \A k \in display[displays[id]].workspaces :
                      /\ workspaces'[k].parent = workspaces'[active_workspace].parent
                      /\ k \in display'[workspaces'[active_workspace].parent].workspaces
                /\ \E j \in DisplayIds : displays'[j] = workspaces'[active_workspace].parent
                /\ \A k \in WorkspaceIds :
                      workspaces'[k].exists =>
                         \E j \in DisplayIds : displays'[j] = workspaces'[k].parent]_vars


\* How many times window w is enumerated from the roots of the workspaces of
\* tiler s
RECURSIVE RootOccurrences(_, _, _)
RootOccurrences(s, ks, w) ==
    IF ks = {} THEN 0
    ELSE (IF s.workspaces[Lowest(ks)].exists /\ s.workspaces[Lowest(ks)].fork # Nil
          THEN Occurrences(fork_windows(s, s.workspaces[Lowest(ks)].fork, MaxDepth).ws, w)
          ELSE 0)
         + RootOccurrences(s, ks \ {Lowest(ks)}, w)

\* Window w of tiler t refers to the stack or the fork that holds it
HeldByParent(t, w) ==
    IF t.win[w].stack # Nil
    THEN /\ t.stack[t.win[w].stack].live
         /\ w \in Range(t.stack[t.win[w].stack].windows)
    ELSE /\ t.win[w].fork # Nil
         /\ t.fork[t.win[w].fork].live
         /\ BranchWindow(w) \in {t.fork[t.win[w].fork].left, t.fork[t.win[w].fork].right}

\* C38 as stated: after Attach(w) in a state where the active workspace
\* exists, w is a leaf reachable from a workspace root exactly once and the
\* parent reference of w names the node that holds it, also when no window is
\* active and the largest window of the workspace sits in a nested fork.
C38_AttachReachable ==
    (abort = "none" /\ workspaces[active_workspace].exists) =>
       \A id \in WinIds :
          (/\ windows[id] # Nil
           /\ win[windows[id]].fork = Nil
           /\ win[windows[id]].stack = Nil
           /\ request_attach(State, id).abort = "none") =>
             /\ RootOccurrences(request_attach(State, id), WorkspaceIds, windows[id]) = 1
             /\ HeldByParent(request_attach(State, id), windows[id])


\* C39: in every reachable state, the focus window a workspace remembers, when
\* set, is a registered window that is attached in the tree of that workspace;
\* hence the active window is never a detached window after a request.
FocusAttached(k) ==
    /\ workspaces[k].focus \in Registered
    /\ win[workspaces[k].focus].workspace = k
    /\ workspaces[k].fork # Nil
    /\ Occurrences(fork_windows(State, workspaces[k].fork, MaxDepth).ws, workspaces[k].focus) = 1

C39_FocusAttached ==
    abort = "none" =>
        \A k \in WorkspaceIds :
            (workspaces[k].exists /\ workspaces[k].focus # Nil) => FocusAttached(k)


\* C40: in every reachable state, an active window belongs to the active
\* workspace, also after a switch to a workspace without a remembered focus
\* window; and WorkspaceSwitch(K) to an existing workspace K leaves K active.
ActiveOnWorkspace(t) == t.active # Nil => t.win[t.active].workspace = t.active_workspace

C40_ActiveWorkspace ==
    abort = "none" =>
        /\ ActiveOnWorkspace(State)
        /\ \A k \in WorkspaceIds :
              (workspaces[k].exists /\ workspace_switch(State, k, MaxDepth).abort = "none") =>
                 /\ workspace_switch(State, k, MaxDepth).active_workspace = k
                 /\ ActiveOnWorkspace(workspace_switch(State, k, MaxDepth))

=============================================================================
